---- MODULE Spec2Model ----
(***************************************************************************)
(* Model of the pull-request analysis pipeline of the AI code reviewer:    *)
(* CodeAnalyzer.analyze_pull_request and the scoring and aggregation       *)
(* functions it drives (app/services/code_analyzer.py), together with the  *)
(* parts of its collaborators that decide its control flow.                *)
(*                                                                         *)
(* Numbers with a fractional part are kept in fixed point: quality scores  *)
(* in thousandths (Points), maintainability indices in hundredths.  Means  *)
(* are kept as reduced fractions.  Optional values are sequences of length *)
(* at most one (<<>> is Python's None).                                    *)
(***************************************************************************)
EXTENDS Integers, Sequences, FiniteSets, TLC

(***************************************************************************)
(* Bounds of the model.                                                    *)
(***************************************************************************)
MaxFiles == 2
\* longest list of issues, and of security findings, given to the score
MaxItems == 2
\* longest list of file analyses given to the summary
MaxSummaryFiles == 2

\* a number of score points, in thousandths
Points(x) == x * 1000

NoValue == <<>>
Some(x) == <<x>>

Min(a, b) == IF a < b THEN a ELSE b
Max(a, b) == IF a > b THEN a ELSE b

\* str.lower() of one character, which is also how re.IGNORECASE compares
\* the letters of the model
CharLower(c) ==
    CASE c = "A" -> "a" [] c = "B" -> "b" [] c = "C" -> "c" [] c = "D" -> "d"
      [] c = "E" -> "e" [] c = "F" -> "f" [] c = "G" -> "g" [] c = "H" -> "h"
      [] c = "I" -> "i" [] c = "J" -> "j" [] c = "K" -> "k" [] c = "L" -> "l"
      [] c = "M" -> "m" [] c = "N" -> "n" [] c = "O" -> "o" [] c = "P" -> "p"
      [] c = "Q" -> "q" [] c = "R" -> "r" [] c = "S" -> "s" [] c = "T" -> "t"
      [] c = "U" -> "u" [] c = "V" -> "v" [] c = "W" -> "w" [] c = "X" -> "x"
      [] c = "Y" -> "y" [] c = "Z" -> "z"
      [] OTHER -> c

TextLower(text) == [i \in 1..Len(text) |-> CharLower(text[i])]

RECURSIVE GCD(_, _)
GCD(a, b) == IF b = 0 THEN a ELSE GCD(b, a % b)

\* a mean whose empty case is the full score instead of 0
Mean_full_when_empty(total, n) ==
    IF n > 0
    THEN LET g == GCD(total, n) IN [num |-> total \div g, den |-> n \div g]
    ELSE [num |-> 100000, den |-> 1]

\* sum(...) / total_files if total_files > 0 else 0, as a reduced fraction
Mean(total, n) ==
    IF n > 0
    THEN LET g == GCD(total, n) IN [num |-> total \div g, den |-> n \div g]
    ELSE [num |-> 0, den |-> 1]

(***************************************************************************)
(* models/review.py                                                        *)
(***************************************************************************)
ReviewStatus == {"pending", "in_progress", "completed", "failed"}
Severity == {"critical", "high", "medium", "low", "info"}

CodeIssue(category, severity, title, description) ==
    [category |-> category, severity |-> severity,
     title |-> title, description |-> description]

SecurityFinding(vulnerability_type, severity) ==
    [vulnerability_type |-> vulnerability_type, severity |-> severity]

ComplexityMetrics(cyclomatic, cognitive, loc, maintainability) ==
    [cyclomatic_complexity |-> cyclomatic, cognitive_complexity |-> cognitive,
     lines_of_code |-> loc, maintainability_index |-> maintainability]

\* ReviewResponse(...) with the defaults of the optional fields
ReviewResponse(status, error_message) ==
    [status |-> status, summary |-> NoValue, file_analyses |-> <<>>,
     ai_insights |-> NoValue, error_message |-> error_message]

(***************************************************************************)
(* utils/language_detector.py                                              *)
(***************************************************************************)
\* the entries of the table: an extension as a text (a sequence of
\* characters) and its language tag
extension_items ==
    { <<<<".", "p", "y">>, "python">>,
      <<<<".", "j", "s">>, "javascript">>,
      <<<<".", "j", "s", "x">>, "javascript">>,
      <<<<".", "t", "s">>, "typescript">>,
      <<<<".", "t", "s", "x">>, "typescript">>,
      <<<<".", "j", "a", "v", "a">>, "java">>,
      <<<<".", "k", "t">>, "kotlin">>,
      <<<<".", "g", "o">>, "go">>,
      <<<<".", "r", "s">>, "rust">>,
      <<<<".", "c">>, "c">>,
      <<<<".", "c", "p", "p">>, "cpp">>,
      <<<<".", "c", "c">>, "cpp">>,
      <<<<".", "c", "x", "x">>, "cpp">>,
      <<<<".", "h">>, "cpp">>,
      <<<<".", "h", "p", "p">>, "cpp">>,
      <<<<".", "c", "s">>, "csharp">>,
      <<<<".", "r", "b">>, "ruby">>,
      <<<<".", "p", "h", "p">>, "php">>,
      <<<<".", "s", "w", "i", "f", "t">>, "swift">>,
      <<<<".", "m">>, "objectivec">>,
      <<<<".", "s", "c", "a", "l", "a">>, "scala">>,
      <<<<".", "s", "h">>, "shell">>,
      <<<<".", "b", "a", "s", "h">>, "shell">>,
      <<<<".", "s", "q", "l">>, "sql">>,
      <<<<".", "r">>, "r">>,
      <<<<".", "l", "u", "a">>, "lua">>,
      <<<<".", "p", "l">>, "perl">>,
      <<<<".", "v", "i", "m">>, "vim">>,
      <<<<".", "y", "a", "m", "l">>, "yaml">>,
      <<<<".", "y", "m", "l">>, "yaml">>,
      <<<<".", "j", "s", "o", "n">>, "json">>,
      <<<<".", "x", "m", "l">>, "xml">>,
      <<<<".", "h", "t", "m", "l">>, "html">>,
      <<<<".", "c", "s", "s">>, "css">>,
      <<<<".", "s", "c", "s", "s">>, "scss">>,
      <<<<".", "s", "a", "s", "s">>, "sass">>,
      <<<<".", "m", "d">>, "markdown">>,
      <<<<".", "r", "s", "t">>, "rst">>,
      <<<<".", "t", "e", "x">>, "latex">> }

extension_map ==
    [ext \in { item[1] : item \in extension_items } |->
        (CHOOSE item \in extension_items : item[1] = ext)[2]]

\* str.lower() on the language tags that occur in the model
lower(s) ==
    CASE s = "Python" -> "python"
      [] s = "JAVA" -> "java"
      [] s = "Ruby" -> "ruby"
      [] OTHER -> s

\* the position of the last "." of a text, 0 if it has none
rfind_dot(text) ==
    LET dots == { i \in 1..Len(text) : text[i] = "." }
    IN IF dots = {} THEN 0 ELSE CHOOSE i \in dots : \A j \in dots : j <= i

\* the components of a path text as pairs <<first, last>> of positions: the
\* maximal runs without "/", but for the runs that are a single "."
path_parts(text) ==
    { part \in (1..Len(text)) \X (1..Len(text)) :
        /\ part[1] <= part[2]
        /\ \A k \in part[1]..part[2] : text[k] # "/"
        /\ part[1] = 1 \/ text[part[1] - 1] = "/"
        /\ part[2] = Len(text) \/ text[part[2] + 1] = "/"
        /\ SubSeq(text, part[1], part[2]) # <<".">> }

\* PurePath.name: the last component, the empty text if there is none
path_name(text) ==
    LET parts == path_parts(text)
    IN IF parts = {} THEN <<>>
       ELSE LET last == CHOOSE part \in parts : \A q \in parts : q[2] <= part[2]
            IN SubSeq(text, last[1], last[2])

\* PurePath.suffix: the name from its last "." on, if that "." is neither
\* the first nor the last character of the name
path_suffix(text) ==
    LET name == path_name(text)
        i == rfind_dot(name)
    IN IF 1 < i /\ i < Len(name) THEN SubSeq(name, i, Len(name)) ELSE <<>>

\* Path(file_path), as far as the detector reads it
Path(text) == [name |-> path_name(text), suffix |-> path_suffix(text)]

\* a detector that looks the suffix up as it is written
detect_case_sensitive(file_path) ==
    LET ext == file_path.suffix
    IN IF ext \in DOMAIN extension_map THEN Some(extension_map[ext]) ELSE NoValue

\* LanguageDetector.detect on Path(file_path): the language tag, or None
detect(file_path) ==
    LET ext == TextLower(file_path.suffix)
    IN IF ext \in DOMAIN extension_map THEN Some(extension_map[ext]) ELSE NoValue

\* LanguageDetector.is_supported
is_supported(file_path) == detect(file_path) # NoValue

(***************************************************************************)
(* File contents.  The text of a file is represented by the features the   *)
(* analysers read from it: physical lines, non-blank lines, comment lines, *)
(* decision tokens (for Python what the walk over the syntax tree adds to  *)
(* the base complexity of 1, else the matches of the nine patterns of      *)
(* _analyze_js_complexity), maximum                                        *)
(* brace depth, the numbers of comma-separated parameters of its function  *)
(* signatures (for Python the "def" lines), its indentation depth, whether *)
(* ast.parse accepts it, rejects it with SyntaxError or with another       *)
(* exception (null bytes), and the matches of the scanner's pattern        *)
(* tables.                                                                 *)
(***************************************************************************)
SampleContents ==
    { [lines |-> 10, nonblank |-> 8, comments |-> 0, decisions |-> 0,
       depth |-> 1, signatures |-> <<2>>, indent_depth |-> 1,
       syntax_ok |-> TRUE, null_bytes |-> FALSE,
       pattern_hits |-> <<>>, secret_hits |-> 0, crypto_hits |-> 0],
      [lines |-> 150, nonblank |-> 150, comments |-> 0, decisions |-> 14,
       depth |-> 5, signatures |-> <<7>>, indent_depth |-> 3,
       syntax_ok |-> TRUE, null_bytes |-> FALSE,
       pattern_hits |-> <<"critical">>, secret_hits |-> 0, crypto_hits |-> 0],
      [lines |-> 300, nonblank |-> 300, comments |-> 0, decisions |-> 25,
       depth |-> 2, signatures |-> <<>>, indent_depth |-> 2,
       syntax_ok |-> TRUE, null_bytes |-> FALSE,
       pattern_hits |-> <<"critical", "high">>, secret_hits |-> 1, crypto_hits |-> 1],
      [lines |-> 12, nonblank |-> 10, comments |-> 0, decisions |-> 3,
       depth |-> 0, signatures |-> <<>>, indent_depth |-> 0,
       syntax_ok |-> FALSE, null_bytes |-> FALSE,
       pattern_hits |-> <<>>, secret_hits |-> 0, crypto_hits |-> 1] }

(***************************************************************************)
(* services/complexity_analyzer.py                                         *)
(***************************************************************************)
\* math.log(n) in millionths, for the line counts of the model
LnMicro(n) ==
    CASE n = 1 -> 0
      [] n = 2 -> 693147
      [] n = 6 -> 1791759
      [] n = 8 -> 2079442
      [] n = 10 -> 2302585
      [] n = 12 -> 2484907
      [] n = 16 -> 2772589
      [] n = 20 -> 2995732
      [] n = 150 -> 5010635
      [] n = 300 -> 5703782
      [] n = 600 -> 6396930

\* _calculate_maintainability_index, in hundredths
calculate_maintainability_index(cyclomatic, loc) ==
    IF loc = 0 THEN 10000
    ELSE LET volume == Max(1, loc * 2)
             mi == 171000000 - (52 * LnMicro(volume)) \div 10
                     - 230000 * cyclomatic - (162 * LnMicro(loc)) \div 10
             clamped == Max(0, Min(100000000, mi))
         IN (clamped + 5000) \div 10000

\* default metrics that leave the comment lines out of the line count
get_default_metrics_without_comments(code) ==
    ComplexityMetrics(1, 1, code.nonblank - code.comments, 5000)

\* _get_default_metrics
get_default_metrics(code) ==
    ComplexityMetrics(1, 1, code.nonblank, 5000)

\* _analyze_python_complexity: ast.parse, SyntaxError falls back to defaults
analyze_python_complexity(code) ==
    IF code.syntax_ok
    THEN LET cyclomatic == 1 + code.decisions
             loc == code.nonblank - code.comments
         IN ComplexityMetrics(cyclomatic, code.decisions, loc,
                              calculate_maintainability_index(cyclomatic, loc))
    ELSE get_default_metrics(code)

\* _analyze_js_complexity (also used for typescript and java)
analyze_js_complexity(code) ==
    LET cyclomatic == 1 + code.decisions
        cognitive == cyclomatic + code.depth * 2
        loc == code.nonblank - code.comments
    IN ComplexityMetrics(cyclomatic, cognitive, loc,
                         calculate_maintainability_index(cyclomatic, loc))

\* a generic analysis without the floor of 1
analyze_generic_complexity_no_floor(code) ==
    LET loc == code.nonblank
        cyclomatic == loc \div 20
    IN ComplexityMetrics(cyclomatic, cyclomatic, loc, Max(0, 10000 - loc * 10))

\* _analyze_generic_complexity
analyze_generic_complexity(code) ==
    LET loc == code.nonblank
        cyclomatic == Max(1, loc \div 20)
    IN ComplexityMetrics(cyclomatic, cyclomatic, loc, Max(0, 10000 - loc * 10))

\* what the analyzer of a language raises: ast.parse on a text with null
\* bytes raises an exception that is no SyntaxError
analyzer_raises(code, language) == language = "python" /\ code.null_bytes

\* an analysis that counts decision tokens and braces for every language
\* but Python
analyze_without_generic(code, language) ==
    IF analyzer_raises(code, lower(language)) THEN get_default_metrics(code)
    ELSE CASE lower(language) = "python" -> analyze_python_complexity(code)
           [] OTHER -> analyze_js_complexity(code)

\* ComplexityAnalyzer.analyze: dispatch on language.lower(); an exception of
\* the analyzer is caught and replaced by the default metrics
analyze(code, language) ==
    IF analyzer_raises(code, lower(language)) THEN get_default_metrics(code)
    ELSE CASE lower(language) = "python" -> analyze_python_complexity(code)
           [] lower(language) \in {"javascript", "typescript", "java"} ->
                analyze_js_complexity(code)
           [] OTHER -> analyze_generic_complexity(code)

CodeSmell(smell_type, severity) == [smell_type |-> smell_type, severity |-> severity]

\* the too_many_parameters smells of the "def" lines
RECURSIVE parameter_smells(_)
parameter_smells(signatures) ==
    IF Len(signatures) = 0 THEN <<>>
    ELSE (IF Head(signatures) > 5
          THEN <<CodeSmell("too_many_parameters", "medium")>> ELSE <<>>)
         \o parameter_smells(Tail(signatures))

\* ComplexityAnalyzer.detect_code_smells
detect_code_smells(code, language) ==
    (IF code.lines > 100 THEN <<CodeSmell("long_method", "medium")>> ELSE <<>>)
    \o (IF lower(language) = "python" THEN parameter_smells(code.signatures) ELSE <<>>)
    \o (IF code.depth > 4 THEN <<CodeSmell("deep_nesting", "high")>> ELSE <<>>)

(***************************************************************************)
(* services/security_scanner.py                                            *)
(***************************************************************************)
\* the languages that have a table in vulnerability_patterns
PatternLanguages == {"python", "javascript", "java"}

RECURSIVE Repeat(_, _)
Repeat(x, n) == IF n = 0 THEN <<>> ELSE <<x>> \o Repeat(x, n - 1)

\* _check_sensitive_data: one critical finding per matching line and pattern
check_sensitive_data(code) ==
    Repeat(SecurityFinding("Hardcoded Secret", "critical"), code.secret_hits)

\* _check_cryptographic_issues: one medium finding per match
check_cryptographic_issues(code) ==
    Repeat(SecurityFinding("Weak Cryptography", "medium"), code.crypto_hits)

\* a scan that runs the two additional checks only for a language that has
\* a pattern table
scan_checks_with_table_only(code, language) ==
    LET patterns == IF lower(language) \in PatternLanguages THEN code.pattern_hits ELSE <<>>
    IN [i \in 1..Len(patterns) |-> SecurityFinding("Pattern", patterns[i])]
       \o (IF lower(language) \in PatternLanguages
           THEN check_sensitive_data(code) \o check_cryptographic_issues(code)
           ELSE <<>>)

\* SecurityScanner.scan: the matches of vulnerability_patterns.get(
\* language.lower(), []), then the two additional checks
scan(code, language) ==
    LET patterns == IF lower(language) \in PatternLanguages THEN code.pattern_hits ELSE <<>>
    IN [i \in 1..Len(patterns) |-> SecurityFinding("Pattern", patterns[i])]
       \o check_sensitive_data(code)
       \o check_cryptographic_issues(code)

\* the table of calculate_security_score
security_severity_weights ==
    [critical |-> 25, high |-> 15, medium |-> 8, low |-> 3, info |-> 1]

\* sum(severity_weights.get(f.severity, 5) for f in findings)
RECURSIVE total_deduction(_)
total_deduction(findings) ==
    IF Len(findings) = 0 THEN 0
    ELSE (IF Head(findings).severity \in DOMAIN security_severity_weights
          THEN security_severity_weights[Head(findings).severity] ELSE 5)
         + total_deduction(Tail(findings))

\* a score without the floor of 0
calculate_security_score_unclamped(findings) ==
    IF Len(findings) = 0 THEN 100 ELSE 100 - total_deduction(findings)

\* SecurityScanner.calculate_security_score; round(score, 2) leaves the whole
\* number it is given
calculate_security_score(findings) ==
    IF Len(findings) = 0 THEN 100 ELSE Max(0, 100 - total_deduction(findings))

(***************************************************************************)
(* services/secrets_scanner.py.  A text is the sequence of its characters. *)
(* A line of code is represented by the start of its stripped text and by  *)
(* the matches re.finditer yields on it, pattern by pattern in the order   *)
(* of the table.                                                           *)
(***************************************************************************)
\* the severity of the patterns that occur in the model
secret_patterns ==
    [aws_access_key |-> "critical", password_in_url |-> "high", jwt_token |-> "medium"]

\* the literal texts whose occurrence is a match of a false-positive pattern
\* (xxx+ and \*\*\*+ match where xxx and *** occur, test[_-]?key where
\* testkey, test_key or test-key occurs)
false_positive_patterns ==
    { <<"e", "x", "a", "m", "p", "l", "e", ".", "c", "o", "m">>,
      <<"l", "o", "c", "a", "l", "h", "o", "s", "t">>,
      <<"1", "2", "7", ".", "0", ".", "0", ".", "1">>,
      <<"t", "e", "s", "t", "k", "e", "y">>,
      <<"t", "e", "s", "t", "_", "k", "e", "y">>,
      <<"t", "e", "s", "t", "-", "k", "e", "y">>,
      <<"d", "u", "m", "m", "y", "k", "e", "y">>,
      <<"d", "u", "m", "m", "y", "_", "k", "e", "y">>,
      <<"d", "u", "m", "m", "y", "-", "k", "e", "y">>,
      <<"f", "a", "k", "e", "k", "e", "y">>,
      <<"f", "a", "k", "e", "_", "k", "e", "y">>,
      <<"f", "a", "k", "e", "-", "k", "e", "y">>,
      <<"p", "l", "a", "c", "e", "h", "o", "l", "d", "e", "r">>,
      <<"x", "x", "x">>,
      <<"*", "*", "*">> }

\* re.search of a literal text
Occurs(pattern, text) ==
    \E i \in 1..(Len(text) - Len(pattern) + 1) :
        SubSeq(text, i, i + Len(pattern) - 1) = pattern

\* SecretsScanner._is_false_positive
is_false_positive(text) ==
    \E pattern \in false_positive_patterns : Occurs(pattern, TextLower(text))

Stars(n) == [i \in 1..n |-> "*"]

\* a mask that leaves a secret of at most 8 characters as it is
mask_secret_long_only(secret) ==
    IF Len(secret) <= 8 THEN secret
    ELSE SubSeq(secret, 1, 4) \o Stars(Len(secret) - 8)
         \o SubSeq(secret, Len(secret) - 3, Len(secret))

\* SecretsScanner._mask_secret
mask_secret(secret) ==
    IF Len(secret) <= 8 THEN Stars(Len(secret))
    ELSE SubSeq(secret, 1, 4) \o Stars(Len(secret) - 8)
         \o SubSeq(secret, Len(secret) - 3, Len(secret))

\* a comment test that knows the prefix # only
is_comment_hash_only(line) == line.start = "#"

\* line.strip().startswith(("#", "//", "/*", "*"))
is_comment(line) == line.start \in {"#", "//", "/*", "*"}

SecretFinding(secret_type, severity, line, file, matched_text) ==
    [secret_type |-> secret_type, severity |-> severity, line |-> line, file |-> file, matched_text |-> matched_text]

\* the findings of one line: the inner loops of scan_code
RECURSIVE line_findings(_, _, _)
line_findings(matches, line_num, file_path) ==
    IF Len(matches) = 0 THEN <<>>
    ELSE (IF is_false_positive(Head(matches).text) THEN <<>>
          ELSE <<SecretFinding(Head(matches).secret_type,
                               secret_patterns[Head(matches).secret_type],
                               line_num, file_path,
                               mask_secret(Head(matches).text))>>)
         \o line_findings(Tail(matches), line_num, file_path)

\* SecretsScanner.scan_code, from line line_num on
RECURSIVE scan_lines(_, _, _)
scan_lines(lines, line_num, file_path) ==
    IF line_num > Len(lines) THEN <<>>
    ELSE (IF is_comment(lines[line_num]) THEN <<>>
          ELSE line_findings(lines[line_num].matches, line_num, file_path))
         \o scan_lines(lines, line_num + 1, file_path)

scan_code(code, file_path) == scan_lines(code, 1, file_path)

\* a risk score without the cap of 100
calculate_risk_score_uncapped(severity_counts) ==
    severity_counts.critical * 25 + severity_counts.high * 15
    + severity_counts.medium * 5 + severity_counts.low * 2

\* SecretsScanner._calculate_risk_score
calculate_risk_score(severity_counts) ==
    Min(100, severity_counts.critical * 25 + severity_counts.high * 15
             + severity_counts.medium * 5 + severity_counts.low * 2)

\* the findings of the files of a dict, in the order of its items
RECURSIVE all_findings(_)
all_findings(file_contents) ==
    IF Len(file_contents) = 0 THEN <<>>
    ELSE scan_code(Head(file_contents).content, Head(file_contents).file_path)
         \o all_findings(Tail(file_contents))

\* SecretsScanner.scan_repository; file_contents is the list of the items of
\* the dict
scan_repository(file_contents) ==
    LET findings == all_findings(file_contents)
        severity_counts ==
            [sev \in {"critical", "high", "medium", "low"} |->
                Cardinality({ i \in 1..Len(findings) : findings[i].severity = sev })]
    IN [total_secrets |-> Len(findings),
        severity_counts |-> severity_counts,
        findings |-> findings,
        files_scanned |-> Len(file_contents),
        risk_score |-> calculate_risk_score(severity_counts)]

(***************************************************************************)
(* services/ai_service.py                                                  *)
(***************************************************************************)
\* what the provider call behind analyze_code may do: raise, or return a
\* response whose suggestions were cut to at most 10 by _parse_ai_response
AIOutcomes ==
    { [kind |-> "raise", suggestions |-> <<>>],
      [kind |-> "ok", suggestions |-> <<>>],
      [kind |-> "ok", suggestions |-> <<"s1", "s2">>],
      [kind |-> "ok", suggestions |-> <<"s1", "s2", "s3", "s4", "s5", "s6", "s7">>] }

\* what the provider call behind generate_review_summary may do
SummaryOutcomes ==
    { [kind |-> "raise", text |-> ""], [kind |-> "ok", text |-> "summary text"] }

\* a summary call without the fallback text
generate_review_summary_no_fallback(outcome) == outcome.text

\* AIService.generate_review_summary: a provider failure is caught and
\* replaced by the fallback text
generate_review_summary(outcome) ==
    IF outcome.kind = "ok" THEN outcome.text ELSE "Failed to generate summary"

(***************************************************************************)
(* services/github_service.py                                              *)
(***************************************************************************)
FileNames ==
    { [stem |-> "a", suffix |-> <<".", "p", "y">>],
      [stem |-> "b", suffix |-> <<".", "j", "s">>],
      [stem |-> "d", suffix |-> <<".", "b", "i", "n">>] }

\* the additions and deletions GitHub reports for a file of the model
Additions(filename) == CASE filename.stem = "a" -> 3 [] filename.stem = "b" -> 10 [] OTHER -> 1
Deletions(filename) == CASE filename.stem = "a" -> 1 [] OTHER -> 0

\* PRFile
PRFiles ==
    { [filename |-> f, status |-> st, additions |-> Additions(f), deletions |-> Deletions(f)] :
        f \in FileNames, st \in {"modified", "removed"} }

\* the file lists get_pull_request may return: no path occurs twice
FileLists ==
    UNION { { fs \in [1..n -> PRFiles] :
                \A i, j \in 1..n : i # j => fs[i].filename # fs[j].filename } :
            n \in 0..MaxFiles }

\* the failures of get_pull_request
FetchErrors == {"repository not found", "pull request not found", "connection error"}

\* what get_file_content may do: return None (GithubException, directory),
\* return the empty text, raise (an error other than GithubException, such
\* as a decoding error), or return the text
ContentOutcomes ==
    { [kind |-> k, code |-> CHOOSE c \in SampleContents : c.lines = 10] :
        k \in {"absent", "empty", "raise"} }
    \cup { [kind |-> "text", code |-> c] : c \in SampleContents }

(***************************************************************************)
(* services/code_analyzer.py                                               *)
(***************************************************************************)
FileAnalysis(file_path, language, additions, deletions, complexity, issues, security_findings, quality_score) ==
    [file_path |-> file_path, language |-> language,
     lines_added |-> additions, lines_removed |-> deletions,
     complexity |-> complexity, issues |-> issues,
     security_findings |-> security_findings, quality_score |-> quality_score]

\* a table with the weights of critical and high exchanged
severity_weights_swapped ==
    [critical |-> 10, high |-> 15, medium |-> 5, low |-> 2, info |-> 1]

\* the table of _calculate_quality_score
severity_weights ==
    [critical |-> 15, high |-> 10, medium |-> 5, low |-> 2, info |-> 1]

\* severity_weights.get(severity, default)
weight_get(severity, default) ==
    IF severity \in DOMAIN severity_weights THEN severity_weights[severity] ELSE default

\* "for x in items: score -= severity_weights.get(x.severity, default)"
RECURSIVE deduct(_, _, _)
deduct(score, items, default) ==
    IF Len(items) = 0 THEN score
    ELSE deduct(score - Points(weight_get(Head(items).severity, default)),
                Tail(items), default)

\* CodeAnalyzer._calculate_quality_score, in thousandths
calculate_quality_score(complexity, issues, security_findings) ==
    LET s0 == Points(100)
        s1 == IF complexity.cyclomatic_complexity > 10
              THEN s0 - Points(Min(20, (complexity.cyclomatic_complexity - 10) * 2))
              ELSE s0
        s2 == IF complexity.maintainability_index < 5000
              THEN s1 - (5000 - complexity.maintainability_index) * 5
              ELSE s1
        s3 == deduct(s2, issues, 3)
        s4 == deduct(s3, security_findings, 5)
    IN Max(0, Min(Points(100), s4))

RECURSIVE SeqSum(_)
SeqSum(s) == IF Len(s) = 0 THEN 0 ELSE Head(s) + SeqSum(Tail(s))

\* the number of elements of a list that have the given severity
CountSeverity(items, severity) ==
    Cardinality({i \in 1..Len(items) : items[i].severity = severity})

\* a count that takes the security findings of the severity as issues too
count_issues_with_findings(file_analyses, severity) ==
    SeqSum([i \in 1..Len(file_analyses) |->
               CountSeverity(file_analyses[i].issues, severity)
               + CountSeverity(file_analyses[i].security_findings, severity)])

\* the counting loop of _generate_summary for one severity
count_issues(file_analyses, severity) ==
    SeqSum([i \in 1..Len(file_analyses) |->
               CountSeverity(file_analyses[i].issues, severity)])

Line(text, count) == [text |-> text, count |-> count]

\* a recommendation that asks for changes from three security findings on
recommendation_of_from_three(critical_issues, high_issues, medium_issues, security_findings_count) ==
    IF critical_issues > 0 \/ security_findings_count >= 3 THEN "REQUEST_CHANGES"
    ELSE IF high_issues > 5 \/ medium_issues > 10 THEN "COMMENT"
    ELSE "APPROVE"

\* lines 286-292: the recommendation
recommendation_of(critical_issues, high_issues, medium_issues, security_findings_count) ==
    IF critical_issues > 0 \/ security_findings_count > 3 THEN "REQUEST_CHANGES"
    ELSE IF high_issues > 5 \/ medium_issues > 10 THEN "COMMENT"
    ELSE "APPROVE"

\* CodeAnalyzer._generate_summary
generate_summary(file_analyses) ==
    LET total_files == Len(file_analyses)
        total_lines_changed ==
            SeqSum([i \in 1..total_files |->
                      file_analyses[i].lines_added + file_analyses[i].lines_removed])
        critical_issues == count_issues(file_analyses, "critical")
        high_issues == count_issues(file_analyses, "high")
        medium_issues == count_issues(file_analyses, "medium")
        low_issues == count_issues(file_analyses, "low")
        security_findings_count ==
            SeqSum([i \in 1..total_files |-> Len(file_analyses[i].security_findings)])
        avg_complexity ==
            Mean(SeqSum([i \in 1..total_files |->
                           file_analyses[i].complexity.cyclomatic_complexity]),
                 total_files)
        overall_score ==
            Mean(SeqSum([i \in 1..total_files |-> file_analyses[i].quality_score]),
                 total_files)
        recommendation ==
            recommendation_of(critical_issues, high_issues, medium_issues,
                              security_findings_count)
        strengths ==
            (IF overall_score.num > Points(80) * overall_score.den
             THEN <<"High code quality overall">> ELSE <<>>)
            \o (IF security_findings_count = 0
                THEN <<"No security vulnerabilities detected">> ELSE <<>>)
            \o (IF avg_complexity.num < 5 * avg_complexity.den
                THEN <<"Low code complexity">> ELSE <<>>)
        weaknesses ==
            (IF critical_issues > 0
             THEN <<Line("critical issues found", critical_issues)>> ELSE <<>>)
            \o (IF security_findings_count > 0
                THEN <<Line("security findings", security_findings_count)>> ELSE <<>>)
            \o (IF avg_complexity.num > 10 * avg_complexity.den
                THEN <<Line("High code complexity", 0)>> ELSE <<>>)
    IN [total_files |-> total_files,
        total_lines_changed |-> total_lines_changed,
        overall_quality_score |-> overall_score,
        critical_issues |-> critical_issues,
        high_issues |-> high_issues,
        medium_issues |-> medium_issues,
        low_issues |-> low_issues,
        security_findings_count |-> security_findings_count,
        average_complexity |-> avg_complexity,
        recommendation |-> recommendation,
        strengths |-> strengths,
        weaknesses |-> weaknesses]

\* "ai_response.suggestions[:5]"
MaxAISuggestions == 5

\* issues that rate a smell of high severity as critical
smell_issues_high_as_critical(smells) ==
    [i \in 1..Len(smells) |->
        CodeIssue("complexity",
                  IF smells[i].severity = "high" THEN "critical" ELSE smells[i].severity,
                  smells[i].smell_type, "smell")]

\* the issues made from the code smells
smell_issues(smells) ==
    [i \in 1..Len(smells) |->
        CodeIssue("complexity", smells[i].severity, smells[i].smell_type, "smell")]

\* every suggestion of the response made an issue
ai_issues_uncapped(ai_outcome) ==
    IF ai_outcome.kind = "ok"
    THEN [i \in 1..Len(ai_outcome.suggestions) |->
            CodeIssue("quality", "medium", "Code Quality Issue", ai_outcome.suggestions[i])]
    ELSE <<>>

\* an AI failure reported as an issue of the file
ai_issues_placeholder(ai_outcome) ==
    IF ai_outcome.kind = "ok"
    THEN [i \in 1..Min(MaxAISuggestions, Len(ai_outcome.suggestions)) |->
            CodeIssue("quality", "medium", "Code Quality Issue", ai_outcome.suggestions[i])]
    ELSE <<CodeIssue("quality", "medium", "Code Quality Issue", "AI analysis failed")>>

\* the issues made from the AI response; none when the call raised
ai_issues(ai_outcome) ==
    IF ai_outcome.kind = "ok"
    THEN [i \in 1..Min(MaxAISuggestions, Len(ai_outcome.suggestions)) |->
            CodeIssue("quality", "medium", "Code Quality Issue", ai_outcome.suggestions[i])]
    ELSE <<>>

\* lines 157-158: the complexity analysis does not look at include_complexity
complexity_step_gated(content, language, include_complexity) ==
    IF include_complexity THEN analyze(content, language) ELSE get_default_metrics(content)

complexity_step(content, language, include_complexity) ==
    analyze(content, language)

\* lines 173-175: the security scan runs only if include_security
security_step_always(content, language, include_security) ==
    scan(content, language)

security_step(content, language, include_security) ==
    IF include_security THEN scan(content, language) ELSE <<>>

\* CodeAnalyzer._analyze_file: "none" is the return of None, "raise" an
\* exception leaving the method, "analysis" the return of a FileAnalysis
analyze_file(pr_file, content_outcome, ai_outcome, include_security, include_complexity) ==
    LET language == detect(pr_file.filename)
    IN IF language = NoValue THEN [kind |-> "none", value |-> NoValue]
       ELSE IF content_outcome.kind = "raise" THEN [kind |-> "raise", value |-> NoValue]
       ELSE IF content_outcome.kind # "text" THEN [kind |-> "none", value |-> NoValue]
       ELSE LET content == content_outcome.code
                complexity == complexity_step(content, language[1], include_complexity)
                smells == detect_code_smells(content, language[1])
                security_findings == security_step(content, language[1], include_security)
                issues == smell_issues(smells) \o ai_issues(ai_outcome)
                quality_score ==
                    calculate_quality_score(complexity, issues, security_findings)
            IN [kind |-> "analysis",
                value |-> Some(FileAnalysis(pr_file.filename, language[1],
                                            pr_file.additions, pr_file.deletions,
                                            complexity, issues, security_findings,
                                            quality_score))]

\* a loop body that puts the new analysis in front of the list
loop_body_prepend(analyses, pr_file, content_outcome, ai_outcome, include_sec, include_cx) ==
    IF pr_file.status = "removed" THEN analyses
    ELSE LET r == analyze_file(pr_file, content_outcome, ai_outcome, include_sec, include_cx)
         IN IF r.kind = "analysis" THEN r.value \o analyses ELSE analyses

\* one pass of the loop body of analyze_pull_request (lines 71-90): the list
\* of analyses after the file has been handled
loop_body(analyses, pr_file, content_outcome, ai_outcome, include_sec, include_cx) ==
    IF pr_file.status = "removed" THEN analyses
    ELSE LET r == analyze_file(pr_file, content_outcome, ai_outcome, include_sec, include_cx)
         IN IF r.kind = "analysis" THEN analyses \o r.value ELSE analyses

\* lines 92-113: the review as returned on the normal path
completed_review(analyses, summary_outcome) ==
    [status |-> "completed",
     summary |-> Some(generate_summary(analyses)),
     file_analyses |-> analyses,
     ai_insights |-> Some(generate_review_summary(summary_outcome)),
     error_message |-> NoValue]

\* a handler that logs and raises again
except_handler_reraise(message) == [raised |-> TRUE, value |-> NoValue]

\* a handler that drops the text of the exception
except_handler_no_message(message) ==
    [raised |-> FALSE, value |-> Some(ReviewResponse("failed", NoValue))]

\* lines 115-125: the exception handler returns a failed review; nothing
\* is raised to the caller
except_handler(message) ==
    [raised |-> FALSE, value |-> Some(ReviewResponse("failed", Some(message)))]

(***************************************************************************)
(* One call of analyze_pull_request as a state machine.                    *)
(*   pc                 "start", "files" (the loop over pr_data.files),    *)
(*                      "done" (the call has returned or raised)           *)
(*   include_security, include_complexity   the arguments of the call      *)
(*   pr_files           pr_data.files                                      *)
(*   idx                position of the loop in pr_files                   *)
(*   review             the local ReviewResponse, None before line 60      *)
(*   file_analyses      the local list                                     *)
(*   result             what the caller gets                               *)
(*   fetch_log, file_log, summary_log   what the collaborators answered    *)
(*   alt_file_analyses, alt_result   the same call, against the same       *)
(*                      answers, with include_complexity negated           *)
(*   arg, ret           input and output of a function applied on its own  *)
(***************************************************************************)
VARIABLES pc, include_security, include_complexity, pr_files, idx, review,
          file_analyses, result, fetch_log, file_log, summary_log,
          alt_file_analyses, alt_result, arg, ret

(***************************************************************************)
(* The state of the services around the analysis.                          *)
(*   reviews_store      api/v1/endpoints/review.py: review id -> review    *)
(*   analysis_tasks     the analyze requests: review id -> state of the    *)
(*                      request and the review its analysis has returned   *)
(*   last_response      the request answered last and its answer           *)
(*   deleted_ids        the ids whose delete request has succeeded         *)
(*   redis_zsets        the sorted sets of the rate limiter: key -> members*)
(*   clock              int(time.time())                                   *)
(*   limiter_config     the limit and window the limiter is called with    *)
(*   limiter_log        the calls of check_rate_limit: key, time, answer   *)
(*   active_connections, review_subscriptions   the fields of the          *)
(*                      ConnectionManager                                  *)
(*   send_task          the broadcast or personal message in progress      *)
(***************************************************************************)
VARIABLES reviews_store, analysis_tasks, last_response, deleted_ids,
          redis_zsets, clock, limiter_config, limiter_log,
          active_connections, review_subscriptions, send_task

analysis_vars ==
    <<pc, include_security, include_complexity, pr_files, idx, review,
      file_analyses, result, fetch_log, file_log, summary_log,
      alt_file_analyses, alt_result, arg, ret>>

store_vars == <<reviews_store, analysis_tasks, last_response, deleted_ids>>

limiter_vars == <<redis_zsets, clock, limiter_config, limiter_log>>

manager_vars == <<active_connections, review_subscriptions, send_task>>

service_vars == <<store_vars, limiter_vars, manager_vars>>

vars == <<analysis_vars, service_vars>>

\* the empty function: an empty dict
EmptyMap == <<>>

\* no request has been answered
NoResponse == [op |-> "none", review_id |-> 0, status_code |-> 0, body |-> NoValue]

\* no message is being sent
NoTask == [kind |-> "none"]

StoreIdle ==
    /\ reviews_store = EmptyMap
    /\ analysis_tasks = EmptyMap
    /\ last_response = NoResponse
    /\ deleted_ids = {}

LimiterIdle ==
    /\ redis_zsets = EmptyMap
    /\ clock = 0
    /\ limiter_config = [limit |-> 1, window |-> 1]
    /\ limiter_log = <<>>

ManagerIdle ==
    /\ active_connections = EmptyMap
    /\ review_subscriptions = EmptyMap
    /\ send_task = NoTask

\* the services while the analysis, or a function on its own, is looked at
ServicesIdle == StoreIdle /\ LimiterIdle /\ ManagerIdle

NoResult == [raised |-> FALSE, value |-> NoValue]

NotCalledContent ==
    [kind |-> "not_called", code |-> CHOOSE c \in SampleContents : c.lines = 10]
NotCalledAI == [kind |-> "not_called", suggestions |-> <<>>]

\* the answers of the collaborators for one file: get_file_content is called
\* only past the returns of lines 72 and 145, analyze_code only past the
\* return of line 151
Responses(pr_file) ==
    IF pr_file.status = "removed" \/ detect(pr_file.filename) = NoValue
    THEN { [content |-> NotCalledContent, ai |-> NotCalledAI] }
    ELSE { [content |-> c, ai |-> NotCalledAI] :
             c \in {x \in ContentOutcomes : x.kind # "text"} }
         \cup { [content |-> c, ai |-> a] :
                  c \in {x \in ContentOutcomes : x.kind = "text"}, a \in AIOutcomes }

Init ==
    /\ pc = "start"
    /\ include_security \in BOOLEAN
    /\ include_complexity \in BOOLEAN
    /\ pr_files = <<>>
    /\ idx = 1
    /\ review = NoValue
    /\ file_analyses = <<>>
    /\ result = NoResult
    /\ fetch_log = NoValue
    /\ file_log = <<>>
    /\ summary_log = NoValue
    /\ alt_file_analyses = <<>>
    /\ alt_result = NoResult
    /\ arg = NoValue
    /\ ret = NoValue
    /\ ServicesIdle

\* lines 55-58 and 115-125: get_pull_request raises
FetchPullRequestFails ==
    /\ pc = "start"
    /\ \E message \in FetchErrors :
          /\ fetch_log' = Some(message)
          /\ result' = except_handler(message)
          /\ alt_result' = except_handler(message)
    /\ pc' = "done"
    /\ UNCHANGED <<include_security, include_complexity, pr_files, idx, review,
                   file_analyses, file_log, summary_log, alt_file_analyses, arg, ret>>
    /\ UNCHANGED service_vars

\* lines 55-69: get_pull_request returns, the review record is created
FetchPullRequest ==
    /\ pc = "start"
    /\ pr_files' \in FileLists
    /\ fetch_log' = Some("ok")
    /\ review' = Some(ReviewResponse("in_progress", NoValue))
    /\ file_analyses' = <<>>
    /\ alt_file_analyses' = <<>>
    /\ idx' = 1
    /\ pc' = "files"
    /\ UNCHANGED <<include_security, include_complexity, result, file_log,
                   summary_log, alt_result, arg, ret>>
    /\ UNCHANGED service_vars

\* lines 70-90: one iteration of the loop over the files
AnalyzeNextFile ==
    /\ pc = "files"
    /\ idx <= Len(pr_files)
    /\ \E r \in Responses(pr_files[idx]) :
          /\ file_analyses' =
                loop_body(file_analyses, pr_files[idx], r.content, r.ai,
                          include_security, include_complexity)
          /\ alt_file_analyses' =
                loop_body(alt_file_analyses, pr_files[idx], r.content, r.ai,
                          include_security, ~include_complexity)
          /\ file_log' = Append(file_log, r)
    /\ idx' = idx + 1
    /\ UNCHANGED <<pc, include_security, include_complexity, pr_files, review,
                   result, fetch_log, summary_log, alt_result, arg, ret>>
    /\ UNCHANGED service_vars

\* lines 92-113: summary, AI insights, completion and return
FinishReview ==
    /\ pc = "files"
    /\ idx > Len(pr_files)
    /\ \E outcome \in SummaryOutcomes :
          /\ summary_log' = Some(outcome.kind)
          /\ review' = Some(completed_review(file_analyses, outcome))
          /\ result' = [raised |-> FALSE,
                        value |-> Some(completed_review(file_analyses, outcome))]
          /\ alt_result' = [raised |-> FALSE,
                            value |-> Some(completed_review(alt_file_analyses, outcome))]
    /\ pc' = "done"
    /\ UNCHANGED <<include_security, include_complexity, pr_files, idx,
                   file_analyses, fetch_log, file_log, alt_file_analyses, arg, ret>>
    /\ UNCHANGED service_vars

Next ==
    \/ FetchPullRequestFails
    \/ FetchPullRequest
    \/ AnalyzeNextFile
    \/ FinishReview

Spec == Init /\ [][Next]_vars

(***************************************************************************)
(* _calculate_quality_score applied on its own: the input is drawn from    *)
(* the metrics, issue lists and finding lists below, one step applies the  *)
(* function.                                                               *)
(***************************************************************************)
\* the values of the other variables while a function is applied on its own
AnalysisIdle ==
    /\ include_security = TRUE
    /\ include_complexity = TRUE
    /\ pr_files = <<>>
    /\ idx = 1
    /\ review = NoValue
    /\ file_analyses = <<>>
    /\ result = NoResult
    /\ fetch_log = NoValue
    /\ file_log = <<>>
    /\ summary_log = NoValue
    /\ alt_file_analyses = <<>>
    /\ alt_result = NoResult

Idle == AnalysisIdle /\ ServicesIdle

\* cyclomatic complexity and maintainability index (hundredths) around the
\* thresholds 10 and 50 and the cap of 20
ComplexityInputs ==
    { ComplexityMetrics(p[1], p[1], 10, p[2]) :
        p \in { <<1, 10000>>, <<10, 5000>>, <<11, 4999>>,
                <<20, 3935>>, <<21, 0>>, <<30, 10000>> } }

\* the lists of at most MaxItems severities
SeverityLists == UNION { [1..n -> Severity] : n \in 0..MaxItems }

ScoreInputs ==
    { [complexity |-> c,
       issues |-> [i \in 1..Len(ss) |-> CodeIssue("quality", ss[i], "t", "d")],
       security_findings |-> [i \in 1..Len(fs) |-> SecurityFinding("v", fs[i])]] :
        c \in ComplexityInputs, ss \in SeverityLists, fs \in SeverityLists }

ScoreInit ==
    /\ pc = "score"
    /\ arg \in { Some(x) : x \in ScoreInputs }
    /\ ret = NoValue
    /\ Idle

ApplyQualityScore ==
    /\ pc = "score"
    /\ ret = NoValue
    /\ ret' = Some(calculate_quality_score(arg[1].complexity, arg[1].issues,
                                           arg[1].security_findings))
    /\ UNCHANGED <<pc, include_security, include_complexity, pr_files, idx, review,
                   file_analyses, result, fetch_log, file_log, summary_log,
                   alt_file_analyses, alt_result, arg>>
    /\ UNCHANGED service_vars

ScoreNext == ApplyQualityScore

ScoreSpec == ScoreInit /\ [][ScoreNext]_vars

(***************************************************************************)
(* _generate_summary applied on its own to lists of file analyses.         *)
(***************************************************************************)
\* file analyses by their numbers of critical, high and medium issues, of
\* security findings and of low issues; the lists of them pass the thresholds of the
\* recommendation both within one file and across files
IssueProfiles ==
    { <<0, 0, 0, 0, 0>>, <<1, 0, 0, 0, 0>>, <<0, 1, 0, 0, 0>>, <<0, 5, 0, 0, 0>>,
      <<0, 6, 0, 0, 0>>, <<0, 0, 1, 0, 2>>, <<0, 0, 10, 0, 0>>, <<0, 0, 11, 0, 0>>,
      <<0, 0, 0, 1, 0>>, <<0, 0, 0, 3, 0>>, <<0, 0, 0, 4, 0>>, <<0, 3, 5, 2, 1>> }

SummaryFileInputs ==
    { LET issues == Repeat(CodeIssue("quality", "critical", "t", "d"), p[1])
                    \o Repeat(CodeIssue("complexity", "high", "t", "d"), p[2])
                    \o Repeat(CodeIssue("quality", "medium", "t", "d"), p[3])
                    \o Repeat(CodeIssue("quality", "low", "t", "d"), p[5])
          findings == Repeat(SecurityFinding("v", "high"), p[4])
          complexity == ComplexityMetrics(1 + p[2], 1, 10, 10000)
      IN FileAnalysis([stem |-> "f", suffix |-> <<".", "p", "y">>], "python", p[3], p[4],
                      complexity, issues, findings,
                      calculate_quality_score(complexity, issues, findings)) :
        p \in IssueProfiles }

SummaryInputs == UNION { [1..n -> SummaryFileInputs] : n \in 0..MaxSummaryFiles }

SummaryInit ==
    /\ pc = "summary"
    /\ arg \in { Some(x) : x \in SummaryInputs }
    /\ ret = NoValue
    /\ Idle

ApplyGenerateSummary ==
    /\ pc = "summary"
    /\ ret = NoValue
    /\ ret' = Some(generate_summary(arg[1]))
    /\ UNCHANGED <<pc, include_security, include_complexity, pr_files, idx, review,
                   file_analyses, result, fetch_log, file_log, summary_log,
                   alt_file_analyses, alt_result, arg>>
    /\ UNCHANGED service_vars

SummaryNext == ApplyGenerateSummary

SummarySpec == SummaryInit /\ [][SummaryNext]_vars

(***************************************************************************)
(* The float arithmetic of line 284,                                       *)
(*     sum(fa.quality_score for fa in file_analyses) / total_files,        *)
(* as CPython evaluates it on IEEE-754 doubles: the sum is accumulated     *)
(* from left to right (the builtin sum up to CPython 3.11; later versions  *)
(* compensate the rounding errors of the additions), each addition and the *)
(* division round to the nearest double, ties to even. A double between 0  *)
(* and 512 that is a                                                       *)
(* multiple of 2^-47 is held as the number hi * 2^28 + lo of such units;   *)
(* every double from 32 on is such a multiple.                             *)
(***************************************************************************)
MaxOrderFiles == 3

Limb == 2^28

Double(hi, lo) == [hi |-> hi, lo |-> lo]

Carry(hi, lo) == Double(hi + lo \div Limb, lo % Limb)

\* the distance between neighbouring doubles at the size of x, in units:
\* 2^-47 below 64, 2^-46 below 128, 2^-45 below 256, 2^-44 below 512
Ulp(x) ==
    IF x.hi < 2^25 THEN 1
    ELSE IF x.hi < 2^26 THEN 2
    ELSE IF x.hi < 2^27 THEN 4
    ELSE 8

\* the double nearest to the exact value x, ties to the even neighbour
RoundToDouble(x) ==
    LET u == Ulp(x)
        r == x.lo % u
        up == 2 * r > u \/ (2 * r = u /\ (x.lo \div u) % 2 = 1)
    IN Carry(x.hi, IF up THEN x.lo - r + u ELSE x.lo - r)

\* a + b on doubles
float_add(a, b) == RoundToDouble(Carry(a.hi + b.hi, a.lo + b.lo))

\* sum(...) of the builtin: the running total starts at 0 and takes the
\* elements in the order of the list
RECURSIVE float_sum(_, _)
float_sum(total, xs) ==
    IF Len(xs) = 0 THEN total ELSE float_sum(float_add(total, Head(xs)), Tail(xs))

\* x / n on doubles for a count n and a quotient between 32 and 128
float_div(x, n) ==
    LET u == IF x.hi >= n * 2^25 THEN 2 ELSE 1
        d == n * u
        t == (x.hi % d) * Limb + x.lo
        q == t \div d
        r == t % d
        up == 2 * r > d \/ (2 * r = d /\ q % 2 = 1)
    IN Carry((x.hi \div d) * u, (IF up THEN q + 1 ELSE q) * u)

\* the double that _calculate_quality_score returns where the model has the
\* score in thousandths: a whole score is itself; 97.55 is
\* 100.0 - (50 - 45.1) * 0.5, 92.32 is 100.0 - (50 - 44.64) * 0.5 - 5 and
\* 82.285 is 100.0 - 4 - (50 - 42.57) * 0.5 - 10
quality_score_double(score) ==
    IF score % 1000 = 0 THEN Double((score \div 1000) * 2^19, 0)
    ELSE IF score = 97550 THEN Double(51144294, 107374182)
    ELSE IF score = 92320 THEN Double(48402268, 42949672)
    ELSE Double(43141038, 21474836)

\* line 284 on doubles
overall_score_double(analyses) ==
    IF Len(analyses) > 0
    THEN float_div(float_sum(Double(0, 0),
                             [i \in 1..Len(analyses) |->
                                quality_score_double(analyses[i].quality_score)]),
                   Len(analyses))
    ELSE Double(0, 0)

(***************************************************************************)
(* _generate_summary applied to the same file analyses in every order.     *)
(***************************************************************************)
\* four files of a pull request: a short clean one, and three of 300 lines
\* whose maintainability index is below 50, one clean, one with a medium
\* issue, one with a high security finding
OrderFileInputs ==
    { LET complexity == ComplexityMetrics(p.cyclomatic, p.cyclomatic, p.loc, p.mi)
      IN FileAnalysis([stem |-> p.stem, suffix |-> <<".", "p", "y">>], "python", p.added, p.removed,
                      complexity, p.issues, p.findings,
                      calculate_quality_score(complexity, p.issues, p.findings)) :
        p \in { [stem |-> "a", cyclomatic |-> 1, loc |-> 10, mi |-> 10000,
                 added |-> 1, removed |-> 0, issues |-> <<>>, findings |-> <<>>],
                [stem |-> "b", cyclomatic |-> 1, loc |-> 300, mi |-> 4510,
                 added |-> 2, removed |-> 1, issues |-> <<>>, findings |-> <<>>],
                [stem |-> "c", cyclomatic |-> 3, loc |-> 300, mi |-> 4464,
                 added |-> 4, removed |-> 0,
                 issues |-> <<CodeIssue("quality", "medium", "t", "d")>>,
                 findings |-> <<>>],
                [stem |-> "d", cyclomatic |-> 12, loc |-> 300, mi |-> 4257,
                 added |-> 0, removed |-> 8, issues |-> <<>>,
                 findings |-> <<SecurityFinding("v", "high")>>] } }

OrderInputs == UNION { [1..n -> OrderFileInputs] : n \in 0..MaxOrderFiles }

\* the lists that hold the elements of the list in another order
Reorderings(analyses) ==
    { [i \in 1..Len(analyses) |-> analyses[f[i]]] :
        f \in Permutations(1..Len(analyses)) }

\* the ReviewSummary with its overall score as the double the code computes
summary_as_computed(analyses) ==
    [summary |-> generate_summary(analyses),
     overall_quality_score |-> overall_score_double(analyses)]

OrderInit ==
    /\ pc = "order"
    /\ arg \in { Some(x) : x \in OrderInputs }
    /\ ret = NoValue
    /\ Idle

ApplyGenerateSummaryAsComputed ==
    /\ pc = "order"
    /\ ret = NoValue
    /\ ret' = Some(summary_as_computed(arg[1]))
    /\ UNCHANGED <<pc, include_security, include_complexity, pr_files, idx, review,
                   file_analyses, result, fetch_log, file_log, summary_log,
                   alt_file_analyses, alt_result, arg>>
    /\ UNCHANGED service_vars

OrderNext == ApplyGenerateSummaryAsComputed

OrderSpec == OrderInit /\ [][OrderNext]_vars

(***************************************************************************)
(* calculate_security_score applied on its own to lists of findings.       *)
(***************************************************************************)
MaxFindings == 5

FindingLists ==
    UNION { [1..n -> { SecurityFinding("v", sev) : sev \in Severity }] : n \in 0..MaxFindings }

SecurityScoreInit ==
    /\ pc = "security_score"
    /\ arg \in { Some(x) : x \in FindingLists }
    /\ ret = NoValue
    /\ Idle

ApplySecurityScore ==
    /\ pc = "security_score"
    /\ ret = NoValue
    /\ ret' = Some(calculate_security_score(arg[1]))
    /\ UNCHANGED <<pc, include_security, include_complexity, pr_files, idx, review,
                   file_analyses, result, fetch_log, file_log, summary_log,
                   alt_file_analyses, alt_result, arg>>
    /\ UNCHANGED service_vars

SecurityScoreNext == ApplySecurityScore

SecurityScoreSpec == SecurityScoreInit /\ [][SecurityScoreNext]_vars

(***************************************************************************)
(* SecurityScanner.scan applied on its own to a text and a language tag.   *)
(***************************************************************************)
MaxHits == 2

\* texts by what the scanner finds in them: the matches of the pattern table
\* of their language, of the secret patterns and of the weak-crypto names
ScanContents ==
    { [lines |-> 10, nonblank |-> 8, comments |-> 0, decisions |-> 0,
       depth |-> 1, signatures |-> <<2>>, indent_depth |-> 1,
       syntax_ok |-> TRUE, null_bytes |-> FALSE,
       pattern_hits |-> ph, secret_hits |-> sh, crypto_hits |-> ch] :
        ph \in { <<>>, <<"critical">>, <<"critical", "high">> },
        sh \in 0..MaxHits, ch \in 0..MaxHits }

\* language tags with a pattern table (in either case), without one, and the
\* empty tag
ScanLanguages == {"python", "Python", "javascript", "JAVA", "go", "Ruby", "unknown", ""}

ScanInputs == { [code |-> c, language |-> l] : c \in ScanContents, l \in ScanLanguages }

ScanInit ==
    /\ pc = "scan"
    /\ arg \in { Some(x) : x \in ScanInputs }
    /\ ret = NoValue
    /\ Idle

ApplyScan ==
    /\ pc = "scan"
    /\ ret = NoValue
    /\ ret' = Some(scan(arg[1].code, arg[1].language))
    /\ UNCHANGED <<pc, include_security, include_complexity, pr_files, idx, review,
                   file_analyses, result, fetch_log, file_log, summary_log,
                   alt_file_analyses, alt_result, arg>>
    /\ UNCHANGED service_vars

ScanNext == ApplyScan

ScanSpec == ScanInit /\ [][ScanNext]_vars

(***************************************************************************)
(* _mask_secret, scan_code and scan_repository, each applied on its own.   *)
(***************************************************************************)
MaxSecretLen == 10

MaxLines == 2

MaxRepoFiles == 2

\* texts of up to MaxSecretLen characters of a letter and the star
SecretTexts == UNION { [1..n -> {"s", "*"}] : n \in 0..MaxSecretLen }

Match(secret_type, text) == [secret_type |-> secret_type, text |-> text]

\* the matches of a line: none, a JWT of 8 characters, an access key, a URL
\* with a password that holds xxx, a URL on localhost or with a starred
\* password, or several of them
LineMatches ==
    { <<>>,
      <<Match("jwt_token", <<"e", "y", "J", ".", "e", "y", "J", ".">>)>>,
      <<Match("password_in_url", <<"f", "t", "p", ":", "/", "/", "u", ":", "X", "X", "X", "@", "h">>)>>,
      <<Match("aws_access_key", <<"A", "K", "I", "A", "1", "2", "3", "4", "5", "6", "7", "8", "9", "0", "A", "B", "C", "D", "E", "F">>),
        Match("password_in_url", <<"f", "t", "p", ":", "/", "/", "u", ":", "p", "w", "@", "h">>)>>,
      <<Match("password_in_url", <<"f", "t", "p", ":", "/", "/", "u", ":", "p", "w", "@", "L", "o", "c", "a", "l", "h", "o", "s", "t">>),
        Match("password_in_url", <<"f", "t", "p", ":", "/", "/", "u", ":", "*", "*", "*", "@", "h">>),
        Match("jwt_token", <<"e", "y", "J", ".", "e", "y", "J", ".">>)>> }

\* how the stripped text of a line starts: with a comment prefix or not
LineStarts == {"#", "//", "/*", "*", "k"}

CodeLines == { [start |-> st, matches |-> ms] : st \in LineStarts, ms \in LineMatches }

Codes == UNION { [1..n -> CodeLines] : n \in 0..MaxLines }

\* file contents of a repository: no line, a line of comment, lines with
\* findings of each severity
RepoContents ==
    { <<>>,
      <<[start |-> "#", matches |-> <<Match("jwt_token", <<"e", "y", "J", ".", "e", "y", "J", ".">>)>>]>>,
      <<[start |-> "k", matches |-> <<Match("jwt_token", <<"e", "y", "J", ".", "e", "y", "J", ".">>)>>]>>,
      <<[start |-> "k", matches |->
            <<Match("aws_access_key", <<"A", "K", "I", "A", "1", "2", "3", "4", "5", "6", "7", "8", "9", "0", "A", "B", "C", "D", "E", "F">>),
              Match("password_in_url", <<"f", "t", "p", ":", "/", "/", "u", ":", "p", "w", "@", "h">>)>>],
        [start |-> "k", matches |->
            <<Match("aws_access_key", <<"A", "K", "I", "A", "1", "2", "3", "4", "5", "6", "7", "8", "9", "0", "A", "B", "C", "D", "E", "F">>),
              Match("aws_access_key", <<"A", "K", "I", "A", "1", "2", "3", "4", "5", "6", "7", "8", "9", "0", "A", "B", "C", "D", "E", "F">>),
              Match("aws_access_key", <<"A", "K", "I", "A", "1", "2", "3", "4", "5", "6", "7", "8", "9", "0", "A", "B", "C", "D", "E", "F">>)>>]>> }

\* the items of a dict of at most MaxRepoFiles files: the paths differ
Repositories ==
    { fc \in UNION { [1..n -> [file_path : {"a", "b", "c"}, content : RepoContents]] :
                      n \in 0..MaxRepoFiles } :
        \A i, j \in 1..Len(fc) : i # j => fc[i].file_path # fc[j].file_path }

SecretsInit ==
    /\ \/ pc = "mask_secret" /\ arg \in { Some(x) : x \in SecretTexts }
       \/ pc = "scan_code" /\ arg \in { Some(x) : x \in Codes }
       \/ pc = "scan_repository" /\ arg \in { Some(x) : x \in Repositories }
    /\ ret = NoValue
    /\ Idle

ApplyMaskSecret ==
    /\ pc = "mask_secret"
    /\ ret = NoValue
    /\ ret' = Some(mask_secret(arg[1]))
    /\ UNCHANGED <<pc, include_security, include_complexity, pr_files, idx, review,
                   file_analyses, result, fetch_log, file_log, summary_log,
                   alt_file_analyses, alt_result, arg>>
    /\ UNCHANGED service_vars

ApplyScanCode ==
    /\ pc = "scan_code"
    /\ ret = NoValue
    /\ ret' = Some(scan_code(arg[1], "a"))
    /\ UNCHANGED <<pc, include_security, include_complexity, pr_files, idx, review,
                   file_analyses, result, fetch_log, file_log, summary_log,
                   alt_file_analyses, alt_result, arg>>
    /\ UNCHANGED service_vars

ApplyScanRepository ==
    /\ pc = "scan_repository"
    /\ ret = NoValue
    /\ ret' = Some(scan_repository(arg[1]))
    /\ UNCHANGED <<pc, include_security, include_complexity, pr_files, idx, review,
                   file_analyses, result, fetch_log, file_log, summary_log,
                   alt_file_analyses, alt_result, arg>>
    /\ UNCHANGED service_vars

SecretsNext ==
    \/ ApplyMaskSecret
    \/ ApplyScanCode
    \/ ApplyScanRepository

SecretsSpec == SecretsInit /\ [][SecretsNext]_vars

(***************************************************************************)
(* ComplexityAnalyzer.analyze and detect_code_smells, each applied on its  *)
(* own to a text and a language tag.                                       *)
(***************************************************************************)
\* physical lines and non-blank lines: the empty text, one line, a few
\* lines (without or with two comment lines), 100 and 101 lines, 150 and
\* 300 lines
LineShapes ==
    { <<1, 0>>, <<1, 1>>, <<10, 8>>, <<100, 10>>, <<101, 10>>, <<150, 150>>, <<300, 300>> }

\* what ast.parse does with the text: accept it, raise SyntaxError, raise
\* another exception
ParseOutcomes ==
    { [syntax_ok |-> TRUE, null_bytes |-> FALSE],
      [syntax_ok |-> FALSE, null_bytes |-> FALSE],
      [syntax_ok |-> FALSE, null_bytes |-> TRUE] }

ComplexityContents ==
    { c \in { [lines |-> sh[1], nonblank |-> sh[2], comments |-> cm, decisions |-> d,
               depth |-> bd, signatures |-> sg, indent_depth |-> id,
               syntax_ok |-> po.syntax_ok, null_bytes |-> po.null_bytes,
               pattern_hits |-> <<>>, secret_hits |-> 0, crypto_hits |-> 0] :
                 sh \in LineShapes, cm \in {0, 2}, d \in {0, 3, 400}, bd \in {0, 4, 5},
                 id \in {0, 5},
                 sg \in { <<>>, <<5>>, <<6>>, <<7, 2, 6>> }, po \in ParseOutcomes } :
        /\ c.comments > 0 => c.lines = 10
        /\ c.nonblank = 0 =>
              /\ c.decisions = 0 /\ c.depth = 0 /\ c.indent_depth = 0
              /\ c.signatures = <<>> /\ c.syntax_ok }

ComplexityLanguages ==
    {"python", "Python", "javascript", "typescript", "JAVA", "go", "Ruby", ""}

AnalyzerInputs ==
    { [code |-> c, language |-> l] : c \in ComplexityContents, l \in ComplexityLanguages }

ComplexityInit ==
    /\ pc \in {"analyze", "detect_code_smells"}
    /\ arg \in { Some(x) : x \in AnalyzerInputs }
    /\ ret = NoValue
    /\ Idle

ApplyAnalyze ==
    /\ pc = "analyze"
    /\ ret = NoValue
    /\ ret' = Some(analyze(arg[1].code, arg[1].language))
    /\ UNCHANGED <<pc, include_security, include_complexity, pr_files, idx, review,
                   file_analyses, result, fetch_log, file_log, summary_log,
                   alt_file_analyses, alt_result, arg>>
    /\ UNCHANGED service_vars

ApplyDetectCodeSmells ==
    /\ pc = "detect_code_smells"
    /\ ret = NoValue
    /\ ret' = Some(detect_code_smells(arg[1].code, arg[1].language))
    /\ UNCHANGED <<pc, include_security, include_complexity, pr_files, idx, review,
                   file_analyses, result, fetch_log, file_log, summary_log,
                   alt_file_analyses, alt_result, arg>>
    /\ UNCHANGED service_vars

ComplexityNext ==
    \/ ApplyAnalyze
    \/ ApplyDetectCodeSmells

ComplexitySpec == ComplexityInit /\ [][ComplexityNext]_vars

(***************************************************************************)
(* LanguageDetector.detect and is_supported, each applied on its own to a  *)
(* path given as a text.                                                   *)
(***************************************************************************)
\* longest path text
MaxPathLen == 5

\* the characters of the paths: the separators, letters in both cases that
\* spell extensions of the table (.py, .c, .cc, .cpp) and extensions that
\* are not in it
PathChars == {".", "/", "p", "y", "P", "c"}

PathTexts == UNION { [1..n -> PathChars] : n \in 0..MaxPathLen }

DetectorInit ==
    /\ pc \in {"detect", "is_supported"}
    /\ arg \in { Some(text) : text \in PathTexts }
    /\ ret = NoValue
    /\ Idle

ApplyDetect ==
    /\ pc = "detect"
    /\ ret = NoValue
    /\ ret' = Some(detect(Path(arg[1])))
    /\ UNCHANGED <<pc, include_security, include_complexity, pr_files, idx, review,
                   file_analyses, result, fetch_log, file_log, summary_log,
                   alt_file_analyses, alt_result, arg>>
    /\ UNCHANGED service_vars

ApplyIsSupported ==
    /\ pc = "is_supported"
    /\ ret = NoValue
    /\ ret' = Some(is_supported(Path(arg[1])))
    /\ UNCHANGED <<pc, include_security, include_complexity, pr_files, idx, review,
                   file_analyses, result, fetch_log, file_log, summary_log,
                   alt_file_analyses, alt_result, arg>>
    /\ UNCHANGED service_vars

DetectorNext ==
    \/ ApplyDetect
    \/ ApplyIsSupported

DetectorSpec == DetectorInit /\ [][DetectorNext]_vars

(***************************************************************************)
(* api/v1/endpoints/review.py: the review endpoints on the in-memory       *)
(* store.  An analyze request is answered in two steps, because the        *)
(* handler awaits the analysis and other requests are served meanwhile;    *)
(* the other handlers have no await and are one step each.                 *)
(***************************************************************************)
\* the number of analyze requests
MaxReviews == 2

\* uuid4 gives every analysis an id of its own: the ids are numbered in
\* the order of the requests
ReviewIds == 1..MaxReviews

\* a review with its id
with_id(response, review_id) == [review_id |-> review_id] @@ response

\* what analyze_pull_request can return: a completed review, with the AI
\* summary or its fallback text, or a failed review
AnalysisResults ==
    { completed_review(<<>>, outcome) : outcome \in SummaryOutcomes }
    \cup { ReviewResponse("failed", Some("connection error")) }

\* raise HTTPException(status_code, detail)
HTTPException(status_code, detail) == [status_code |-> status_code, body |-> Some(detail)]

\* a handler's return value, sent with status 200
Ok(body) == [status_code |-> 200, body |-> Some(body)]

\* line 44: reviews_store[review.review_id] = review
store_review(store, new_review) ==
    [id \in DOMAIN store \cup {new_review.review_id} |->
        IF id = new_review.review_id THEN new_review ELSE store[id]]

\* lines 53-63
get_review(store, review_id) ==
    IF review_id \notin DOMAIN store THEN HTTPException(404, "Review not found")
    ELSE Ok(store[review_id])

\* lines 66-84
get_review_status(store, review_id) ==
    IF review_id \notin DOMAIN store THEN HTTPException(404, "Review not found")
    ELSE Ok([review_id |-> review_id, status |-> store[review_id].status])

\* lines 87-109
get_review_summary(store, review_id) ==
    IF review_id \notin DOMAIN store THEN HTTPException(404, "Review not found")
    ELSE IF store[review_id].status # "completed"
    THEN HTTPException(400, "Review is not completed yet")
    ELSE Ok([review_id |-> review_id,
             summary |-> store[review_id].summary,
             ai_insights |-> store[review_id].ai_insights])

\* a delete that answers without removing the review
delete_review_keeps(store, review_id) ==
    IF review_id \notin DOMAIN store
    THEN [store |-> store, response |-> HTTPException(404, "Review not found")]
    ELSE [store |-> store,
          response |-> Ok("Review deleted successfully")]

\* lines 112-123: the store after the request, and the answer
delete_review(store, review_id) ==
    IF review_id \notin DOMAIN store
    THEN [store |-> store, response |-> HTTPException(404, "Review not found")]
    ELSE [store |-> [id \in DOMAIN store \ {review_id} |-> store[id]],
          response |-> Ok("Review deleted successfully")]

\* lines 126-147; the entries as a set
list_reviews(store) ==
    Ok([total |-> Cardinality(DOMAIN store),
        reviews |-> { [review_id |-> id, status |-> store[id].status] : id \in DOMAIN store }])

\* the answer to a request, as last_response keeps it
Response(op, review_id, answer) ==
    [op |-> op, review_id |-> review_id,
     status_code |-> answer.status_code, body |-> answer.body]

StoreInit ==
    /\ pc = "store"
    /\ arg = NoValue
    /\ ret = NoValue
    /\ AnalysisIdle
    /\ ServicesIdle

\* lines 20-39: an analyze request arrives and its handler runs up to the
\* await of analyze_pull_request, which has drawn the review id
AnalyzeStart ==
    /\ pc = "store"
    /\ Cardinality(DOMAIN analysis_tasks) < MaxReviews
    /\ LET review_id == Cardinality(DOMAIN analysis_tasks) + 1
       IN analysis_tasks' =
             [id \in DOMAIN analysis_tasks \cup {review_id} |->
                 IF id = review_id
                 THEN [state |-> "running",
                       review |-> with_id(ReviewResponse("in_progress", NoValue), id)]
                 ELSE analysis_tasks[id]]
    /\ UNCHANGED <<reviews_store, last_response, deleted_ids>>
    /\ UNCHANGED <<analysis_vars, limiter_vars, manager_vars>>

\* lines 36-46: the analysis returns its review; the handler stores it and
\* answers with it
AnalyzeFinish ==
    /\ pc = "store"
    /\ \E review_id \in DOMAIN analysis_tasks : \E analysed \in AnalysisResults :
          /\ analysis_tasks[review_id].state = "running"
          /\ LET returned == with_id(analysed, review_id)
             IN /\ reviews_store' = store_review(reviews_store, returned)
                /\ analysis_tasks' =
                      [analysis_tasks EXCEPT ![review_id] =
                          [state |-> "returned", review |-> returned]]
                /\ last_response' = Response("analyze", review_id, Ok(returned))
    /\ UNCHANGED deleted_ids
    /\ UNCHANGED <<analysis_vars, limiter_vars, manager_vars>>

GetReview ==
    /\ pc = "store"
    /\ \E review_id \in ReviewIds :
          last_response' = Response("get", review_id, get_review(reviews_store, review_id))
    /\ UNCHANGED <<reviews_store, analysis_tasks, deleted_ids>>
    /\ UNCHANGED <<analysis_vars, limiter_vars, manager_vars>>

GetReviewStatus ==
    /\ pc = "store"
    /\ \E review_id \in ReviewIds :
          last_response' =
              Response("status", review_id, get_review_status(reviews_store, review_id))
    /\ UNCHANGED <<reviews_store, analysis_tasks, deleted_ids>>
    /\ UNCHANGED <<analysis_vars, limiter_vars, manager_vars>>

GetReviewSummary ==
    /\ pc = "store"
    /\ \E review_id \in ReviewIds :
          last_response' =
              Response("summary", review_id, get_review_summary(reviews_store, review_id))
    /\ UNCHANGED <<reviews_store, analysis_tasks, deleted_ids>>
    /\ UNCHANGED <<analysis_vars, limiter_vars, manager_vars>>

DeleteReview ==
    /\ pc = "store"
    /\ \E review_id \in ReviewIds :
          LET r == delete_review(reviews_store, review_id)
          IN /\ reviews_store' = r.store
             /\ last_response' = Response("delete", review_id, r.response)
             /\ deleted_ids' =
                   IF r.response.status_code = 200
                   THEN deleted_ids \cup {review_id} ELSE deleted_ids
    /\ UNCHANGED analysis_tasks
    /\ UNCHANGED <<analysis_vars, limiter_vars, manager_vars>>

ListReviews ==
    /\ pc = "store"
    /\ last_response' = Response("list", 0, list_reviews(reviews_store))
    /\ UNCHANGED <<reviews_store, analysis_tasks, deleted_ids>>
    /\ UNCHANGED <<analysis_vars, limiter_vars, manager_vars>>

StoreNext ==
    \/ AnalyzeStart
    \/ AnalyzeFinish
    \/ GetReview
    \/ GetReviewStatus
    \/ GetReviewSummary
    \/ DeleteReview
    \/ ListReviews

StoreSpec == StoreInit /\ [][StoreNext]_vars

(***************************************************************************)
(* core/rate_limit.py: RedisRateLimiter.check_rate_limit against the       *)
(* sorted sets of the Redis server.  The four commands of a call are sent  *)
(* as one MULTI/EXEC pipeline, so a call is one step.                      *)
(***************************************************************************)
\* the number of calls of check_rate_limit
MaxCalls == 4
\* the last second of the clock
MaxTime == 2
\* the largest limit and the longest window, in seconds
MaxLimit == 2
MaxWindow == 2

RateLimitKeys == {"rate_limit:anonymous:10.0.0.1", "rate_limit:anonymous:10.0.0.2"}

\* ZREMRANGEBYSCORE key min max on the members of a sorted set; the score of
\* a member is the second it names
zremrangebyscore(members, min, max) == { m \in members : ~(min <= m /\ m <= max) }

\* ZADD key score member with member = str(score): a member that is
\* already in the set is not added a second time
zadd(members, member) == members \cup {member}

\* lines 68-99: the answer of the call and the members of the key after it
check_rate_limit(members, current_time, limit, window) ==
    LET window_start == current_time - window
        kept == zremrangebyscore(members, 0, window_start)
        current_count == Cardinality(kept)
    IN [is_allowed |-> current_count < limit,
        remaining |-> Max(0, limit - current_count - 1),
        reset |-> current_time + window,
        members |-> zadd(kept, current_time)]

\* the members of a key; a key that does not exist is an empty set
zset_members(zsets, key) == IF key \in DOMAIN zsets THEN zsets[key].members ELSE {}

LimiterInit ==
    /\ pc = "limiter"
    /\ arg = NoValue
    /\ ret = NoValue
    /\ AnalysisIdle
    /\ StoreIdle
    /\ ManagerIdle
    /\ redis_zsets = EmptyMap
    /\ clock = 0
    /\ limiter_config \in [limit : 1..MaxLimit, window : 1..MaxWindow]
    /\ limiter_log = <<>>

\* one call of check_rate_limit for a key; line 84 lets the key expire
\* window seconds later
CheckRateLimit ==
    /\ pc = "limiter"
    /\ Len(limiter_log) < MaxCalls
    /\ \E key \in RateLimitKeys :
          LET r == check_rate_limit(zset_members(redis_zsets, key), clock,
                                    limiter_config.limit, limiter_config.window)
          IN /\ redis_zsets' =
                   [k \in DOMAIN redis_zsets \cup {key} |->
                       IF k = key
                       THEN [members |-> r.members,
                             expires_at |-> clock + limiter_config.window]
                       ELSE redis_zsets[k]]
             /\ limiter_log' =
                   Append(limiter_log,
                          [key |-> key, time |-> clock, is_allowed |-> r.is_allowed,
                           remaining |-> r.remaining, reset |-> r.reset])
    /\ UNCHANGED <<clock, limiter_config>>
    /\ UNCHANGED <<analysis_vars, store_vars, manager_vars>>

\* a second passes; the server drops the keys whose time to live is over
Tick ==
    /\ pc = "limiter"
    /\ clock < MaxTime
    /\ clock' = clock + 1
    /\ redis_zsets' =
          [k \in { x \in DOMAIN redis_zsets : redis_zsets[x].expires_at > clock + 1 } |->
              redis_zsets[k]]
    /\ UNCHANGED <<limiter_config, limiter_log>>
    /\ UNCHANGED <<analysis_vars, store_vars, manager_vars>>

LimiterNext ==
    \/ CheckRateLimit
    \/ Tick

LimiterSpec == LimiterInit /\ [][LimiterNext]_vars

(***************************************************************************)
(* _calculate_cyclomatic_complexity_python applied on its own to syntax    *)
(* trees as ast.parse builds them.  A node is its type and its child       *)
(* nodes in the order of ast.iter_child_nodes; the operator of a boolean   *)
(* expression is a child node of it (BoolOp._fields is op, values).        *)
(***************************************************************************)
\* most operands of one boolean expression
MaxOperands == 3
\* most statements in the body of the function
MaxStatements == 2

Node(type, fields) == [type |-> type, fields |-> fields]

NameNode == Node("Name", <<>>)
PassNode == Node("Pass", <<>>)

\* ast.BoolOp(op, values): a and b and c is one node with three values
BoolOpNode(op, values) == Node("BoolOp", <<Node(op, <<>>)>> \o values)

\* node.values of a BoolOp node
node_values(node) == Tail(node.fields)

\* ast.iter_child_nodes
iter_child_nodes(node) == node.fields

\* ast.walk: the node and all its descendants, taken from a queue
RECURSIVE walk_queue(_)
walk_queue(todo) ==
    IF todo = <<>> THEN <<>>
    ELSE <<Head(todo)>> \o walk_queue(Tail(todo) \o iter_child_nodes(Head(todo)))

walk(tree) == walk_queue(<<tree>>)

\* lines 57-62: what one node of the walk adds
node_complexity(node) ==
    IF node.type \in {"If", "While", "For", "ExceptHandler"} THEN 1
    ELSE IF node.type = "BoolOp" THEN Len(node_values(node)) - 1
    ELSE IF node.type \in {"And", "Or"} THEN 1
    ELSE 0

RECURSIVE sum_complexity(_)
sum_complexity(nodes) ==
    IF nodes = <<>> THEN 0
    ELSE node_complexity(Head(nodes)) + sum_complexity(Tail(nodes))

\* lines 51-64
calculate_cyclomatic_complexity_python(tree) == 1 + sum_complexity(walk(tree))

\* boolean expressions over names, and one level of nesting: (a and b) or c
FlatBoolOps ==
    { BoolOpNode(op, [i \in 1..n |-> NameNode]) : op \in {"And", "Or"}, n \in 2..MaxOperands }

NestedBoolOps ==
    { BoolOpNode("Or", <<inner, NameNode>>) : inner \in { b \in FlatBoolOps : b.fields[1].type = "And" } }

Expressions == {NameNode} \cup FlatBoolOps \cup NestedBoolOps

\* simple statements, and compound statements with a body of one statement
SimpleStatements ==
    {PassNode} \cup { Node("Return", <<e>>) : e \in Expressions }

Handlers == { [i \in 1..n |-> Node("ExceptHandler", <<NameNode, PassNode>>)] : n \in 1..2 }

CompoundStatements ==
    { Node(type, <<test, body>>) :
        type \in {"If", "While"},
        test \in {NameNode, BoolOpNode("And", <<NameNode, NameNode>>)},
        body \in {PassNode, Node("If", <<NameNode, PassNode>>)} }
    \cup { Node("For", <<NameNode, NameNode, PassNode>>) }
    \cup { Node("Try", <<PassNode>> \o handlers) : handlers \in Handlers }
    \cup { Node("With", <<Node("withitem", <<NameNode>>), PassNode>>) }

Statements == SimpleStatements \cup CompoundStatements

\* ast.parse of a module that holds one function
SyntaxTrees ==
    { Node("Module", <<Node("FunctionDef", <<Node("arguments", <<>>)>> \o body)>>) :
        body \in UNION { [1..n -> Statements] : n \in 1..MaxStatements } }

CyclomaticInit ==
    /\ pc = "cyclomatic"
    /\ arg \in { Some(tree) : tree \in SyntaxTrees }
    /\ ret = NoValue
    /\ Idle

ApplyCyclomaticComplexity ==
    /\ pc = "cyclomatic"
    /\ ret = NoValue
    /\ ret' = Some(calculate_cyclomatic_complexity_python(arg[1]))
    /\ UNCHANGED <<pc, include_security, include_complexity, pr_files, idx, review,
                   file_analyses, result, fetch_log, file_log, summary_log,
                   alt_file_analyses, alt_result, arg>>
    /\ UNCHANGED service_vars

CyclomaticNext == ApplyCyclomaticComplexity

CyclomaticSpec == CyclomaticInit /\ [][CyclomaticNext]_vars

(***************************************************************************)
(* services/websocket_service.py: the ConnectionManager while one          *)
(* send_personal_message or broadcast_review_update is in progress.  A     *)
(* step of the send runs from one await of send_json to the next; the      *)
(* other coroutines (connect, disconnect, subscribe_to_review,             *)
(* unsubscribe_from_review) run while it is suspended.                     *)
(*                                                                         *)
(* A set iterator is the set object it walks (obj, with the size it had    *)
(* when the loop began and its members of then), the members handed out,   *)
(* and whether the object is still the one the dict holds.  Its next()     *)
(* raises RuntimeError when the size has changed; when the members have    *)
(* changed but not their number it may hand out any member not yet handed  *)
(* out, or stop.                                                           *)
(***************************************************************************)
MaxUsers == 2
MaxConnections == 3

UserIds == 1..MaxUsers
\* the WebSocket objects; each belongs to the user of its token
Connections == 1..MaxConnections
owner(connection) == ((connection - 1) % MaxUsers) + 1

\* the one review that is subscribed to
ReviewKeys == {"review-1"}

NoIter == [obj |-> {}, used |-> 0, initial |-> {}, yielded |-> {}, attached |-> FALSE]

\* iter(a_set)
Iter(a_set) ==
    [obj |-> a_set, used |-> Cardinality(a_set), initial |-> a_set,
     yielded |-> {}, attached |-> TRUE]

\* the iterator after a member was added to the dict's set or discarded
\* from it
iter_add(it, member) == IF it.attached THEN [it EXCEPT !.obj = @ \cup {member}] ELSE it
iter_discard(it, member) == IF it.attached THEN [it EXCEPT !.obj = @ \ {member}] ELSE it
\* the dict no longer holds the set
iter_detach(it) == [it EXCEPT !.attached = FALSE]

\* a send that has returned or raised
Finished(task, status, error) ==
    [kind |-> task.kind, status |-> status, error |-> error,
     review_id |-> task.review_id, user_id |-> task.user_id, current |-> 0,
     outer |-> NoIter, inner |-> NoIter, dead |-> {},
     delivered |-> task.delivered, failed |-> task.failed,
     throughout |-> task.throughout]

RECURSIVE inner_next(_, _)
RECURSIVE outer_next(_, _)

\* lines 58-59 and 61: send_personal_message for task.user_id begins
start_personal(task, connections) ==
    IF task.user_id \notin DOMAIN connections
    THEN IF task.kind = "personal"
         THEN { [task |-> Finished(task, "done", ""), connections |-> connections] }
         ELSE outer_next(task, connections)
    ELSE inner_next([task EXCEPT !.inner = Iter(connections[task.user_id]), !.dead = {}],
                    connections)

\* lines 68-70: the dead connections are discarded, then the call returns
remove_dead(task, connections) ==
    IF task.dead # {} /\ task.user_id \notin DOMAIN connections
    THEN { [task |-> Finished(task, "raised", "KeyError"), connections |-> connections] }
    ELSE LET kept == IF task.dead = {} THEN connections
                     ELSE [connections EXCEPT ![task.user_id] = @ \ task.dead]
         IN IF task.kind = "personal"
            THEN { [task |-> Finished(task, "done", ""), connections |-> kept] }
            ELSE outer_next(task, kept)

\* line 61: the for statement asks the iterator for the next connection
\* and the body awaits send_json for it
inner_next(task, connections) ==
    LET it == task.inner
        rest == it.obj \ it.yielded
    IN IF Cardinality(it.obj) # it.used
       THEN { [task |-> Finished(task, "raised", "RuntimeError"),
               connections |-> connections] }
       ELSE { [task |-> [task EXCEPT !.status = "sending", !.current = c,
                                     !.inner.yielded = @ \cup {c}],
               connections |-> connections] : c \in rest }
            \cup (IF rest = {} \/ it.obj # it.initial
                  THEN remove_dead(task, connections) ELSE {})

\* line 75: the for statement asks the iterator for the next user
outer_next(task, connections) ==
    LET it == task.outer
        rest == it.obj \ it.yielded
    IN IF Cardinality(it.obj) # it.used
       THEN { [task |-> Finished(task, "raised", "RuntimeError"),
               connections |-> connections] }
       ELSE UNION { start_personal([task EXCEPT !.user_id = u, !.outer.yielded = @ \cup {u}],
                                   connections) : u \in rest }
            \cup (IF rest = {} \/ it.obj # it.initial
                  THEN { [task |-> Finished(task, "done", ""), connections |-> connections] }
                  ELSE {})

\* a send as its call begins
NewTask(kind, review_id, user_id, throughout) ==
    [kind |-> kind, status |-> "sending", error |-> "",
     review_id |-> review_id, user_id |-> user_id, current |-> 0,
     outer |-> NoIter, inner |-> NoIter, dead |-> {},
     delivered |-> {}, failed |-> {}, throughout |-> throughout]

\* the connections of a user
connections_of(connections, user_id) ==
    IF user_id \in DOMAIN connections THEN connections[user_id] ELSE {}

\* the subscribers of a review
subscribers_of(subscriptions, review_id) ==
    IF review_id \in DOMAIN subscriptions THEN subscriptions[review_id] ELSE {}

\* lines 56-70
send_personal_message(user_id, connections) ==
    start_personal(NewTask("personal", "", user_id, connections_of(connections, user_id)),
                   connections)

\* lines 72-76
broadcast_review_update(review_id, connections, subscriptions) ==
    LET users == subscribers_of(subscriptions, review_id)
        task == NewTask("broadcast", review_id, 0,
                        UNION { connections_of(connections, u) : u \in users })
    IN IF review_id \notin DOMAIN subscriptions
       THEN { [task |-> Finished(task, "done", ""), connections |-> connections] }
       ELSE outer_next([task EXCEPT !.outer = Iter(subscriptions[review_id])], connections)

Sending == send_task.kind # "none" /\ send_task.status = "sending"

\* the task after connection c of user u was added to or taken from the
\* dict of connections
task_after_connect(task, u, c) ==
    IF task.kind # "none" /\ task.status = "sending" /\ task.user_id = u
    THEN [task EXCEPT !.inner = iter_add(@, c)] ELSE task

task_after_disconnect(task, u, c, key_deleted) ==
    IF task.kind = "none" \/ task.status # "sending" THEN task
    ELSE LET t1 == [task EXCEPT !.throughout = @ \ {c}]
         IN IF task.user_id # u THEN t1
            ELSE [t1 EXCEPT !.inner =
                     IF key_deleted THEN iter_detach(iter_discard(@, c))
                     ELSE iter_discard(@, c)]

ManagerInit ==
    /\ pc = "manager"
    /\ arg = NoValue
    /\ ret = NoValue
    /\ AnalysisIdle
    /\ ServicesIdle

\* lines 20-28: a WebSocket is accepted and stored
Connect ==
    /\ pc = "manager"
    /\ \E c \in Connections :
          LET u == owner(c)
          IN /\ c \notin connections_of(active_connections, u)
             /\ active_connections' =
                   [k \in DOMAIN active_connections \cup {u} |->
                       IF k = u THEN connections_of(active_connections, u) \cup {c}
                       ELSE active_connections[k]]
             /\ send_task' =
                   IF u \in DOMAIN active_connections
                   THEN task_after_connect(send_task, u, c) ELSE send_task
    /\ UNCHANGED review_subscriptions
    /\ UNCHANGED <<analysis_vars, store_vars, limiter_vars>>

\* lines 30-38: the endpoint's handler of WebSocketDisconnect
Disconnect ==
    /\ pc = "manager"
    /\ \E c \in Connections :
          LET u == owner(c)
              left == connections_of(active_connections, u) \ {c}
          IN /\ c \in connections_of(active_connections, u)
             /\ active_connections' =
                   IF left = {}
                   THEN [k \in DOMAIN active_connections \ {u} |-> active_connections[k]]
                   ELSE [active_connections EXCEPT ![u] = left]
             /\ send_task' = task_after_disconnect(send_task, u, c, left = {})
    /\ UNCHANGED review_subscriptions
    /\ UNCHANGED <<analysis_vars, store_vars, limiter_vars>>

\* lines 40-46
SubscribeToReview ==
    /\ pc = "manager"
    /\ \E u \in UserIds : \E r \in ReviewKeys :
          /\ u \in DOMAIN active_connections
          /\ u \notin subscribers_of(review_subscriptions, r)
          /\ review_subscriptions' =
                [k \in DOMAIN review_subscriptions \cup {r} |->
                    IF k = r THEN subscribers_of(review_subscriptions, r) \cup {u}
                    ELSE review_subscriptions[k]]
          /\ send_task' =
                IF Sending /\ send_task.kind = "broadcast" /\ send_task.review_id = r
                   /\ r \in DOMAIN review_subscriptions
                THEN [send_task EXCEPT !.outer = iter_add(@, u)] ELSE send_task
    /\ UNCHANGED active_connections
    /\ UNCHANGED <<analysis_vars, store_vars, limiter_vars>>

\* lines 48-54
UnsubscribeFromReview ==
    /\ pc = "manager"
    /\ \E u \in UserIds : \E r \in ReviewKeys :
          LET left == subscribers_of(review_subscriptions, r) \ {u}
          IN /\ u \in DOMAIN active_connections
             /\ u \in subscribers_of(review_subscriptions, r)
             /\ review_subscriptions' =
                   IF left = {}
                   THEN [k \in DOMAIN review_subscriptions \ {r} |-> review_subscriptions[k]]
                   ELSE [review_subscriptions EXCEPT ![r] = left]
             /\ send_task' =
                   IF Sending /\ send_task.kind = "broadcast" /\ send_task.review_id = r
                   THEN [send_task EXCEPT
                            !.outer = IF left = {} THEN iter_detach(iter_discard(@, u))
                                      ELSE iter_discard(@, u),
                            !.throughout = @ \ connections_of(active_connections, u)]
                   ELSE send_task
    /\ UNCHANGED active_connections
    /\ UNCHANGED <<analysis_vars, store_vars, limiter_vars>>

\* send_personal_message is called and runs to its first await, or returns
StartPersonalMessage ==
    /\ pc = "manager"
    /\ send_task.kind = "none"
    /\ \E u \in UserIds : \E r \in send_personal_message(u, active_connections) :
          /\ send_task' = r.task
          /\ active_connections' = r.connections
    /\ UNCHANGED review_subscriptions
    /\ UNCHANGED <<analysis_vars, store_vars, limiter_vars>>

\* broadcast_review_update is called and runs to its first await, or returns
StartBroadcast ==
    /\ pc = "manager"
    /\ send_task.kind = "none"
    /\ \E r \in ReviewKeys :
          \E s \in broadcast_review_update(r, active_connections, review_subscriptions) :
             /\ send_task' = s.task
             /\ active_connections' = s.connections
    /\ UNCHANGED review_subscriptions
    /\ UNCHANGED <<analysis_vars, store_vars, limiter_vars>>

\* line 63: send_json returns, and the send runs on to its next await
SendReturns ==
    /\ pc = "manager"
    /\ Sending
    /\ \E r \in inner_next([send_task EXCEPT !.delivered = @ \cup {send_task.current}],
                           active_connections) :
          /\ send_task' = r.task
          /\ active_connections' = r.connections
    /\ UNCHANGED review_subscriptions
    /\ UNCHANGED <<analysis_vars, store_vars, limiter_vars>>

\* lines 64-66: send_json raises, the connection is noted as dead
SendRaises ==
    /\ pc = "manager"
    /\ Sending
    /\ \E r \in inner_next([send_task EXCEPT !.dead = @ \cup {send_task.current},
                                             !.failed = @ \cup {send_task.current}],
                           active_connections) :
          /\ send_task' = r.task
          /\ active_connections' = r.connections
    /\ UNCHANGED review_subscriptions
    /\ UNCHANGED <<analysis_vars, store_vars, limiter_vars>>

ManagerNext ==
    \/ Connect
    \/ Disconnect
    \/ SubscribeToReview
    \/ UnsubscribeFromReview
    \/ StartPersonalMessage
    \/ StartBroadcast
    \/ SendReturns
    \/ SendRaises

ManagerSpec == ManagerInit /\ [][ManagerNext]_vars

(***************************************************************************)
(* api/v1/endpoints/webhooks.py: the GitHub webhook endpoint.  A request   *)
(* is the body, the X-GitHub-Event header and the X-Hub-Signature-256      *)
(* header (absent, or a text); the setting GITHUB_WEBHOOK_SECRET is        *)
(* absent or a text.  The hex digest of HMAC-SHA256 is the pair of its     *)
(* key and message: different pairs give different digests.               *)
(***************************************************************************)
\* the keys a sender may sign with; the first is the one configured
WebhookKeys == {"s3cret", "guess"}

\* settings.GITHUB_WEBHOOK_SECRET: None, the empty text or a secret
SecretSettings == {<<>>, <<"">>, <<"s3cret">>}

\* request bodies: the JSON object's action, or a body that is not JSON
Payloads ==
    [action : {"opened", "synchronize", "reopened", "closed"}, valid_json : {TRUE}]
    \cup {[action |-> "", valid_json |-> FALSE]}

\* hmac.new(key, payload, hashlib.sha256).hexdigest()
hexdigest(key, payload) == [key |-> key, msg |-> payload]

\* the text scheme + digest; the empty text has neither
SignatureText(scheme, digest) == [scheme |-> scheme, digest |-> digest]
EmptyText == SignatureText("", <<>>)

\* the values of the X-Hub-Signature-256 header
SignatureTexts ==
    {EmptyText}
    \cup {SignatureText(scheme, <<hexdigest(key, payload)>>) :
             scheme \in {"sha256=", "sha1="}, key \in WebhookKeys, payload \in Payloads}
SignatureHeaders == {<<>>} \cup {<<text>> : text \in SignatureTexts}

\* the values of the X-GitHub-Event header
EventHeaders == {<<>>, <<"pull_request">>, <<"push">>, <<"issues">>, <<"ping">>}

WebhookRequests ==
    [payload : Payloads, x_github_event : EventHeaders,
     x_hub_signature_256 : SignatureHeaders]

\* bool(x) of an optional text: None and the empty text are false
truthy(optional_text) == optional_text # <<>> /\ optional_text[1] # EmptyText
secret_configured(setting) == setting # <<>> /\ setting[1] # ""

\* lines 18-30
verify_webhook_signature(setting, payload, signature) ==
    IF ~secret_configured(setting) THEN TRUE
    ELSE SignatureText("sha256=", <<hexdigest(setting[1], payload)>>) = signature

\* the response of the endpoint and the background tasks it has added
WebhookResult(status_code, tasks) == [status_code |-> status_code, tasks |-> tasks]

\* lines 63-72
dispatch(request) ==
    LET event == request.x_github_event
    IN IF event = <<"pull_request">>
       THEN << [handler |-> "handle_pull_request_event", data |-> request.payload] >>
       ELSE IF event = <<"push">>
       THEN << [handler |-> "handle_push_event", data |-> request.payload] >>
       ELSE IF event = <<"issues">>
       THEN << [handler |-> "handle_issue_event", data |-> request.payload] >>
       ELSE << >>

\* lines 34-74
github_webhook(setting, request) ==
    IF truthy(request.x_hub_signature_256)
       /\ ~verify_webhook_signature(setting, request.payload,
                                    request.x_hub_signature_256[1])
    THEN WebhookResult(401, << >>)
    ELSE IF ~request.payload.valid_json THEN WebhookResult(500, << >>)
    ELSE WebhookResult(200, dispatch(request))

\* lines 77-149: what a background task does with its data
run_handler(task) ==
    IF task.handler = "handle_pull_request_event"
    THEN IF task.data.action \in {"opened", "synchronize", "reopened"}
         THEN "analyze_pull_request" ELSE "ignored"
    ELSE "recorded"

WebhookInit ==
    /\ pc = "webhook"
    /\ arg \in {<<setting, request>> : setting \in SecretSettings, request \in WebhookRequests}
    /\ ret = NoValue
    /\ AnalysisIdle
    /\ ServicesIdle

\* the endpoint answers the request
GithubWebhook ==
    /\ pc = "webhook"
    /\ pc' = "responded"
    /\ ret' = Some([response |-> github_webhook(arg[1], arg[2]), ran |-> << >>])
    /\ UNCHANGED arg
    /\ UNCHANGED <<include_security, include_complexity, pr_files, idx, review,
                   file_analyses, result, fetch_log, file_log, summary_log,
                   alt_file_analyses, alt_result>>
    /\ UNCHANGED service_vars

\* after the response the background tasks run
RunBackgroundTasks ==
    /\ pc = "responded"
    /\ ret[1].response.tasks # << >>
    /\ pc' = "done"
    /\ ret' = Some([ret[1] EXCEPT
                       !.ran = [i \in DOMAIN ret[1].response.tasks |->
                                   run_handler(ret[1].response.tasks[i])]])
    /\ UNCHANGED arg
    /\ UNCHANGED <<include_security, include_complexity, pr_files, idx, review,
                   file_analyses, result, fetch_log, file_log, summary_log,
                   alt_file_analyses, alt_result>>
    /\ UNCHANGED service_vars

WebhookNext ==
    \/ GithubWebhook
    \/ RunBackgroundTasks

WebhookSpec == WebhookInit /\ [][WebhookNext]_vars

(***************************************************************************)
(* Properties of analyze_pull_request.                                     *)
(***************************************************************************)
Terminal == {"completed", "failed"}

Returned == pc = "done" /\ Len(result.value) = 1
FetchOk == fetch_log = Some("ok")
FetchFailed == fetch_log # NoValue /\ fetch_log # Some("ok")

\* the paths of a list of file analyses, in order
Paths(analyses) == [i \in 1..Len(analyses) |-> analyses[i].file_path]

SupportedSuffixes ==
    { <<".", "p", "y">>, <<".", "j", "s">>, <<".", "g", "o">> }

\* file i of the pull request is not removed, has a supported language, has
\* content, and its analysis raised nothing
Analysable(i) ==
    /\ pr_files[i].status # "removed"
    /\ pr_files[i].filename.suffix \in SupportedSuffixes
    /\ file_log[i].content.kind = "text"

\* the paths of the analysable files among files i..Len(pr_files)
RECURSIVE AnalysablePaths(_)
AnalysablePaths(i) ==
    IF i > Len(pr_files) THEN <<>>
    ELSE (IF Analysable(i) THEN <<pr_files[i].filename>> ELSE <<>>)
         \o AnalysablePaths(i + 1)

\* the entries of the returned review for the path of file i
EntriesOf(i) ==
    {k \in 1..Len(result.value[1].file_analyses) :
        result.value[1].file_analyses[k].file_path = pr_files[i].filename}

\* C1: whatever the collaborators do, analyze_pull_request raises nothing to
\* its caller, what it returns is a review in status completed or failed,
\* and a review that is completed or failed is not changed by any step.
C1_ReturnsTerminalReview ==
    [][ /\ result'.raised = FALSE
        /\ (pc' = "done" =>
              /\ Len(result'.value) = 1
              /\ result'.value[1].status \in Terminal)
        /\ (Len(result.value) = 1 => result' = result)
        /\ (Len(review) = 1 /\ review[1].status \in Terminal => review' = review)
      ]_vars

\* a completed review of a pull request in which one file's content fetch
\* raised, one AI call raised and the summary call raised
C1_Witness ==
    /\ Returned
    /\ result.value[1].status = "completed"
    /\ \E i \in 1..Len(file_log) : file_log[i].content.kind = "raise"
    /\ \E i \in 1..Len(file_log) : file_log[i].ai.kind = "raise"
    /\ summary_log = Some("raise")

\* C2: when get_pull_request fails, the returned review is failed, carries
\* the failure text as error_message, has no file analyses and no summary,
\* and neither a file was analysed nor an AI call made.
C2_FetchFailureGivesFailedReview ==
    (pc = "done" /\ FetchFailed) =>
        /\ Returned
        /\ result.value[1].status = "failed"
        /\ result.value[1].error_message = fetch_log
        /\ result.value[1].file_analyses = <<>>
        /\ result.value[1].summary = NoValue
        /\ result.value[1].ai_insights = NoValue
        /\ file_log = <<>>
        /\ summary_log = NoValue

C2_Witness ==
    /\ Returned
    /\ fetch_log = Some("repository not found")
    /\ result.value[1].status = "failed"

\* C3: when the fetch succeeds the returned review is completed and its
\* file_analyses are, in the order of the pull request's files, exactly the
\* files that are not removed, have a supported language, have content and
\* whose analysis raised nothing.
C3_AnalysesAreTheAnalysableFiles ==
    (pc = "done" /\ FetchOk) =>
        /\ Returned
        /\ result.value[1].status = "completed"
        /\ Paths(result.value[1].file_analyses) = AnalysablePaths(1)

\* a file that is left out (no content, or a raising fetch, or an unsupported
\* language) in front of a file that is analysed
C3_Witness ==
    /\ Returned /\ FetchOk
    /\ Len(pr_files) = 2
    /\ ~Analysable(1) /\ pr_files[1].status # "removed"
    /\ Analysable(2)
    /\ Len(result.value[1].file_analyses) = 1

C5_EmptyReviewIsCompleted ==
    (pc = "done" /\ FetchOk /\ AnalysablePaths(1) = <<>>) =>
        /\ Returned
        /\ result.value[1].status = "completed"
        /\ result.value[1].file_analyses = <<>>
        /\ Len(result.value[1].summary) = 1
        /\ LET sm == result.value[1].summary[1]
           IN /\ sm.total_files = 0
              /\ sm.total_lines_changed = 0
              /\ sm.critical_issues = 0
              /\ sm.high_issues = 0
              /\ sm.medium_issues = 0
              /\ sm.low_issues = 0
              /\ sm.security_findings_count = 0
              /\ sm.average_complexity.num = 0
              /\ sm.overall_quality_score.num = 0

\* two files, neither analysed: one without content, one whose fetch raised
C5_Witness ==
    /\ Returned /\ FetchOk
    /\ Len(pr_files) = 2
    /\ \E i, j \in 1..2 :
          /\ file_log[i].content.kind = "raise"
          /\ file_log[j].content.kind \in {"absent", "empty"}
    /\ result.value[1].file_analyses = <<>>

\* C6: when the summary call to the AI provider fails, the review is still
\* completed, with the summary and the file analyses of the run and the
\* fallback text as ai_insights.
C6_SummaryFailureFallsBack ==
    (pc = "done" /\ summary_log = Some("raise")) =>
        /\ Returned
        /\ result.value[1].status = "completed"
        /\ result.value[1].ai_insights = Some("Failed to generate summary")
        /\ result.value[1].file_analyses = file_analyses
        /\ Len(result.value[1].summary) = 1
        /\ result.value[1].summary[1].total_files = Len(file_analyses)
        /\ result.value[1].error_message = NoValue

C6_Witness ==
    /\ Returned
    /\ summary_log = Some("raise")
    /\ Len(result.value[1].file_analyses) = 2

\* C7: with include_security false no file analysis has a security finding
\* and the summary counts none.
C7_NoScanWithoutIncludeSecurity ==
    ~include_security =>
        /\ \A k \in 1..Len(file_analyses) : file_analyses[k].security_findings = <<>>
        /\ (Returned /\ FetchOk =>
              /\ \A k \in 1..Len(result.value[1].file_analyses) :
                    result.value[1].file_analyses[k].security_findings = <<>>
              /\ result.value[1].summary[1].security_findings_count = 0)

\* an analysed file whose text the scanner would have reported
C7_Witness ==
    /\ Returned /\ FetchOk
    /\ ~include_security
    /\ \E i \in 1..Len(pr_files) :
          /\ Analysable(i)
          /\ file_log[i].content.code.secret_hits > 0
          /\ EntriesOf(i) # {}

\* C8: the run with include_complexity negated, against the same answers of
\* the collaborators, has the same file analyses and returns the same
\* review; every analysed file carries the metrics of the complexity
\* analyser and the issues of its code smells.
C8_IncludeComplexityIsIgnored ==
    /\ alt_file_analyses = file_analyses
    /\ alt_result = result
    /\ (Returned /\ FetchOk =>
          \A i \in 1..Len(pr_files) : \A k \in EntriesOf(i) :
              LET fa == result.value[1].file_analyses[k]
                  code == file_log[i].content.code
              IN /\ fa.complexity = analyze(code, fa.language)
                 /\ \A n \in 1..Len(detect_code_smells(code, fa.language)) :
                       fa.issues[n].title = detect_code_smells(code, fa.language)[n].smell_type)

\* a run with include_complexity false that analysed a file with smells
C8_Witness ==
    /\ Returned /\ FetchOk
    /\ ~include_complexity
    /\ \E k \in 1..Len(result.value[1].file_analyses) :
          LET fa == result.value[1].file_analyses[k]
          IN /\ fa.complexity.cyclomatic_complexity > 1
             /\ \E n \in 1..Len(fa.issues) : fa.issues[n].category = "complexity"

(***************************************************************************)
(* Properties of _calculate_quality_score and _generate_summary.           *)
(***************************************************************************)
\* the weight of a severity, in score points
ClaimedWeight(severity) ==
    CASE severity = "critical" -> 15
      [] severity = "high" -> 10
      [] severity = "medium" -> 5
      [] severity = "low" -> 2
      [] severity = "info" -> 1

\* the summed weights of a list, severity by severity
ClaimedDeduction(items) ==
    LET n(sev) == Cardinality({i \in 1..Len(items) : items[i].severity = sev})
    IN 15 * n("critical") + 10 * n("high") + 5 * n("medium") + 2 * n("low") + n("info")

\* the complexity penalty, in thousandths of a point
ClaimedPenalty(complexity) ==
    (IF complexity.cyclomatic_complexity > 10
     THEN 1000 * Min(20, 2 * (complexity.cyclomatic_complexity - 10)) ELSE 0)
    + (IF complexity.maintainability_index < 5000
       THEN 5 * (5000 - complexity.maintainability_index) ELSE 0)

ClaimedScore(complexity, issues, security_findings) ==
    LET raw == 100000 - ClaimedPenalty(complexity)
                 - 1000 * ClaimedDeduction(issues)
                 - 1000 * ClaimedDeduction(security_findings)
    IN IF raw < 0 THEN 0 ELSE IF raw > 100000 THEN 100000 ELSE raw

\* C9: the quality score is 100 minus the complexity penalty minus the
\* weights of the issues minus the weights of the security findings, kept
\* within 0 and 100.
C9_QualityScoreFormula ==
    (pc = "score" /\ ret # NoValue) =>
        ret[1] = ClaimedScore(arg[1].complexity, arg[1].issues, arg[1].security_findings)

\* a score strictly between the clamps that has a penalty of both kinds, an
\* issue and a finding
C9_Witness ==
    /\ pc = "score" /\ ret # NoValue
    /\ arg[1].complexity.cyclomatic_complexity = 11
    /\ arg[1].complexity.maintainability_index = 4999
    /\ Len(arg[1].issues) = 2 /\ arg[1].issues[1].severity = "critical"
    /\ arg[1].issues[2].severity = "info"
    /\ Len(arg[1].security_findings) = 1 /\ arg[1].security_findings[1].severity = "low"
    /\ ret[1] = 100000 - 2000 - 5 - 15000 - 1000 - 2000

\* the positions of all issues, and of all findings, of a list of analyses
IssuePositions(analyses) ==
    UNION { { <<k, n>> : n \in 1..Len(analyses[k].issues) } : k \in 1..Len(analyses) }

FindingPositions(analyses) ==
    UNION { { <<k, n>> : n \in 1..Len(analyses[k].security_findings) } :
            k \in 1..Len(analyses) }

ClaimedIssueCount(analyses, sev) ==
    Cardinality({ p \in IssuePositions(analyses) :
                    analyses[p[1]].issues[p[2]].severity = sev })

ClaimedFindingCount(analyses) == Cardinality(FindingPositions(analyses))

ClaimedRecommendation(analyses) ==
    IF ClaimedIssueCount(analyses, "critical") >= 1 \/ ClaimedFindingCount(analyses) > 3
    THEN "REQUEST_CHANGES"
    ELSE IF ClaimedIssueCount(analyses, "high") > 5
            \/ ClaimedIssueCount(analyses, "medium") > 10
    THEN "COMMENT"
    ELSE "APPROVE"

\* C10: the recommendation is REQUEST_CHANGES with a critical issue or more
\* than 3 security findings, else COMMENT with more than 5 high or more than
\* 10 medium issues, else APPROVE.
C10_Recommendation ==
    (pc = "summary" /\ ret # NoValue) =>
        ret[1].recommendation = ClaimedRecommendation(arg[1])

\* two files, only one of which has a critical issue, and nothing else
C10_Witness ==
    /\ pc = "summary" /\ ret # NoValue
    /\ Len(arg[1]) = 2
    /\ arg[1][1].issues = <<>> /\ arg[1][1].security_findings = <<>>
    /\ Len(arg[1][2].issues) = 1 /\ arg[1][2].issues[1].severity = "critical"
    /\ arg[1][2].security_findings = <<>>
    /\ ret[1].recommendation = "REQUEST_CHANGES"

\* C11: for every order of the same file analyses _generate_summary returns
\* the same totals, severity counts, security-finding count, mean complexity,
\* overall score, recommendation, strengths and weaknesses.
C11_SummaryIsOrderIndependent ==
    (pc = "order" /\ ret # NoValue) =>
        \A p \in Reorderings(arg[1]) : summary_as_computed(p) = ret[1]

\* C11 with the overall score taken as the exact mean: every field of the
\* summary is the same in every order
C11_ExactSummaryIsOrderIndependent ==
    (pc = "order" /\ ret # NoValue) =>
        \A p \in Reorderings(arg[1]) : generate_summary(p) = ret[1].summary

\* three different files, two of them with a score that is not a whole number
C11_Witness ==
    /\ pc = "order" /\ ret # NoValue
    /\ Len(arg[1]) = 3
    /\ Cardinality({ arg[1][i].file_path : i \in 1..3 }) = 3
    /\ Cardinality({ i \in 1..3 : arg[1][i].quality_score % 1000 # 0 }) = 2

RECURSIVE SumOver(_, _)
SumOver(S, f) ==
    IF S = {} THEN 0
    ELSE LET x == CHOOSE y \in S : TRUE IN f[x] + SumOver(S \ {x}, f)

\* a fraction that is the mean of the n values f[1], ..., f[n]
IsMeanOf(m, f, n) == m.den > 0 /\ m.num * n = SumOver(1..n, f) * m.den

\* C12: the summary has total_files equal to the number of analyses,
\* total_lines_changed equal to the sum of lines added and removed,
\* overall_quality_score equal to the mean of the file quality scores,
\* average_complexity equal to the mean cyclomatic complexity,
\* security_findings_count equal to the number of findings, and critical,
\* high, medium and low issue counts equal to the numbers of issues of each
\* severity.
C12_SummaryTotals ==
    (pc = "summary" /\ ret # NoValue) =>
        LET a == arg[1]
            n == Len(a)
            s == ret[1]
        IN /\ s.total_files = n
           /\ s.total_lines_changed =
                 SumOver(1..n, [i \in 1..n |-> a[i].lines_added])
                 + SumOver(1..n, [i \in 1..n |-> a[i].lines_removed])
           /\ n > 0 => IsMeanOf(s.overall_quality_score,
                                [i \in 1..n |-> a[i].quality_score], n)
           /\ n > 0 => IsMeanOf(s.average_complexity,
                                [i \in 1..n |-> a[i].complexity.cyclomatic_complexity], n)
           /\ s.security_findings_count = ClaimedFindingCount(a)
           /\ s.critical_issues = ClaimedIssueCount(a, "critical")
           /\ s.high_issues = ClaimedIssueCount(a, "high")
           /\ s.medium_issues = ClaimedIssueCount(a, "medium")
           /\ s.low_issues = ClaimedIssueCount(a, "low")

\* two files that between them have high, medium and low issues, high
\* security findings and changed lines, with different scores
C12_Witness ==
    /\ pc = "summary" /\ ret # NoValue
    /\ Len(arg[1]) = 2
    /\ arg[1][1].quality_score # arg[1][2].quality_score
    /\ ret[1].high_issues > 0 /\ ret[1].medium_issues > 0 /\ ret[1].low_issues > 2
    /\ ret[1].security_findings_count > 0
    /\ ret[1].security_findings_count # ret[1].high_issues
    /\ ret[1].total_lines_changed > 0

ClaimedSecurityWeight(severity) ==
    CASE severity = "critical" -> 25
      [] severity = "high" -> 15
      [] severity = "medium" -> 8
      [] severity = "low" -> 3
      [] severity = "info" -> 1

ClaimedSecurityScore(findings) ==
    IF findings = <<>> THEN 100
    ELSE LET total == SumOver(1..Len(findings),
                              [i \in 1..Len(findings) |->
                                 ClaimedSecurityWeight(findings[i].severity)])
         IN IF total > 100 THEN 0 ELSE 100 - total

\* C13: calculate_security_score returns 100 for the empty list and otherwise
\* max(0, 100 - sum of weights) with weights critical 25, high 15, medium 8,
\* low 3, info 1; appending a finding never increases the score; the lists [],
\* [critical] and [critical, critical] score 100, 75 and 50.
C13_SecurityScore ==
    (pc = "security_score" /\ ret # NoValue) =>
        LET findings == arg[1]
            critical == SecurityFinding("v", "critical")
        IN /\ ret[1] = ClaimedSecurityScore(findings)
           /\ \A sev \in Severity :
                 calculate_security_score(Append(findings, SecurityFinding("v", sev)))
                    <= ret[1]
           /\ findings = <<>> => ret[1] = 100
           /\ findings = <<critical>> => ret[1] = 75
           /\ findings = <<critical, critical>> => ret[1] = 50

\* five critical findings: the deduction of 125 passes 100 and the score is 0
C13_Witness ==
    /\ pc = "security_score" /\ ret # NoValue
    /\ Len(arg[1]) = 5
    /\ \A i \in 1..5 : arg[1][i].severity = "critical"
    /\ ret[1] = 0

\* the languages the scanner has a pattern table for
TableLanguages == {"python", "Python", "javascript", "JAVA"}

\* C14: scan runs the hardcoded-secret and weak-crypto checks on every file
\* whatever the language tag: the result ends with their findings; for a
\* language with no pattern table the result is exactly the findings of
\* those two checks; scan returns for every input.
C14_ScanChecksEveryLanguage ==
    (pc = "scan" /\ ret # NoValue) =>
        LET code == arg[1].code
            findings == ret[1]
            n == Len(findings)
            k == code.secret_hits + code.crypto_hits
        IN /\ n >= k
           /\ \A i \in 1..code.secret_hits :
                 /\ findings[n - k + i].vulnerability_type = "Hardcoded Secret"
                 /\ findings[n - k + i].severity = "critical"
           /\ \A i \in 1..code.crypto_hits :
                 /\ findings[n - code.crypto_hits + i].vulnerability_type = "Weak Cryptography"
                 /\ findings[n - code.crypto_hits + i].severity = "medium"
           /\ arg[1].language \notin TableLanguages => n = k

\* a text of a language without a table that matches table patterns, a secret
\* pattern and a weak-crypto name
C14_Witness ==
    /\ pc = "scan" /\ ret # NoValue
    /\ arg[1].language = "go"
    /\ Len(arg[1].code.pattern_hits) = 2
    /\ arg[1].code.secret_hits = 1 /\ arg[1].code.crypto_hits = 2
    /\ Len(ret[1]) = 3

\* masked is raw with only its first 4 and last 4 characters kept, and with
\* nothing kept when raw has at most 8 characters
IsMaskOf(masked, raw) ==
    /\ Len(masked) = Len(raw)
    /\ \A i \in 1..Len(raw) :
          masked[i] = IF Len(raw) > 8 /\ (i <= 4 \/ i > Len(raw) - 4) THEN raw[i] ELSE "*"

\* the texts of the matches on the lines of a code
RawTexts(code) ==
    UNION { { code[n].matches[k].text : k \in 1..Len(code[n].matches) } :
              n \in 1..Len(code) }

\* every finding has the mask of a match of its line and type as its
\* matched_text, and the text of no match
FindingsAreMasked(findings, code) ==
    \A i \in 1..Len(findings) :
        /\ findings[i].matched_text \notin RawTexts(code)
        /\ \E k \in 1..Len(code[findings[i].line].matches) :
              /\ code[findings[i].line].matches[k].secret_type = findings[i].secret_type
              /\ IsMaskOf(findings[i].matched_text, code[findings[i].line].matches[k].text)

\* C15: no finding of scan_code or scan_repository holds the raw matched
\* text: matched_text is the masked form, as long as the match, all stars
\* when the match has at most 8 characters, and otherwise the first 4 and
\* last 4 characters with every character between replaced by a star.
C15_FindingsHoldMaskedTextOnly ==
    /\ (pc = "mask_secret" /\ ret # NoValue) => IsMaskOf(ret[1], arg[1])
    /\ (pc = "scan_code" /\ ret # NoValue) => FindingsAreMasked(ret[1], arg[1])
    /\ (pc = "scan_repository" /\ ret # NoValue) =>
          \A i \in 1..Len(ret[1].findings) :
              \E n \in 1..Len(arg[1]) :
                  /\ arg[1][n].file_path = ret[1].findings[i].file
                  /\ FindingsAreMasked(<<ret[1].findings[i]>>, arg[1][n].content)

\* a scan that returns the mask of a match of 8 characters and the mask of a
\* match of 20 characters
C15_Witness ==
    /\ pc = "scan_code" /\ ret # NoValue
    /\ \E i, j \in 1..Len(ret[1]) :
          /\ ret[1][i].matched_text = Stars(8)
          /\ Len(ret[1][j].matched_text) = 20
          /\ ret[1][j].matched_text[4] = "A"
          /\ ret[1][j].matched_text[5] = "*"
          /\ ret[1][j].matched_text[17] = "C"

\* the matches of the model that overlap a false-positive pattern: xxx in
\* the password, localhost as the host, *** as the password
FalsePositiveTexts ==
    { <<"f", "t", "p", ":", "/", "/", "u", ":", "X", "X", "X", "@", "h">>,
      <<"f", "t", "p", ":", "/", "/", "u", ":", "p", "w", "@", "L", "o", "c", "a", "l", "h", "o", "s", "t">>,
      <<"f", "t", "p", ":", "/", "/", "u", ":", "*", "*", "*", "@", "h">> }

\* the positions <<line, match>> of the matches that the claim keeps
KeptMatches(code) ==
    UNION { { <<n, k>> : k \in { j \in 1..Len(code[n].matches) :
                                   /\ code[n].start \notin {"#", "//", "/*", "*"}
                                   /\ code[n].matches[j].text \notin FalsePositiveTexts } } :
              n \in 1..Len(code) }

\* C16: scan_code returns one finding for exactly those pattern matches that
\* lie on a line whose stripped text does not start with #, //, /* or * and
\* whose matched text holds no false-positive pattern; each finding carries
\* the 1-based number of its line.
C16_OneFindingPerKeptMatch ==
    (pc = "scan_code" /\ ret # NoValue) =>
        LET code == arg[1]
            findings == ret[1]
        IN /\ Len(findings) = Cardinality(KeptMatches(code))
           /\ \A i \in 1..Len(findings) : findings[i].line \in 1..Len(code)
           /\ \A n \in 1..Len(code) : \A t \in DOMAIN secret_patterns :
                 Cardinality({ i \in 1..Len(findings) :
                                 findings[i].line = n /\ findings[i].secret_type = t })
                 = Cardinality({ p \in KeptMatches(code) :
                                   p[1] = n /\ code[n].matches[p[2]].secret_type = t })

\* a comment line with matches in front of a line with two discarded matches
\* and one kept match: the one finding is on line 2
C16_Witness ==
    /\ pc = "scan_code" /\ ret # NoValue
    /\ Len(arg[1]) = 2
    /\ arg[1][1].start = "/*" /\ Len(arg[1][1].matches) = 2
    /\ arg[1][2].start = "k" /\ Len(arg[1][2].matches) = 3
    /\ Len(ret[1]) = 1
    /\ ret[1][1].line = 2 /\ ret[1][1].secret_type = "jwt_token"

ClaimedRiskScore(counts) ==
    LET weighted == 25 * counts.critical + 15 * counts.high
                    + 5 * counts.medium + 2 * counts.low
    IN IF weighted < 100 THEN weighted ELSE 100

\* C17: scan_repository returns total_secrets equal to the sum of the
\* scan_code findings of every file, files_scanned equal to the number of
\* files, severity_counts whose entries sum to total_secrets, and risk_score
\* equal to min(100, 25*critical + 15*high + 5*medium + 2*low), within 0..100.
C17_RepositorySummary ==
    (pc = "scan_repository" /\ ret # NoValue) =>
        LET files == arg[1]
            n == Len(files)
            r == ret[1]
        IN /\ r.total_secrets =
                 SumOver(1..n, [i \in 1..n |->
                                  Len(scan_code(files[i].content, files[i].file_path))])
           /\ r.files_scanned = n
           /\ r.severity_counts.critical + r.severity_counts.high
              + r.severity_counts.medium + r.severity_counts.low = r.total_secrets
           /\ r.risk_score = ClaimedRiskScore(r.severity_counts)
           /\ r.risk_score \in 0..100

\* two files with four critical, one high and one medium finding between
\* them: the weighted sum of 120 is cut to 100
C17_Witness ==
    /\ pc = "scan_repository" /\ ret # NoValue
    /\ Len(arg[1]) = 2
    /\ ret[1].total_secrets = 6
    /\ ret[1].severity_counts.critical = 4
    /\ ret[1].severity_counts.high = 1
    /\ ret[1].severity_counts.medium = 1
    /\ ret[1].risk_score = 100

\* C18: for every source text and language tag analyze returns metrics with
\* cyclomatic complexity at least 1, cognitive complexity and lines of code
\* at least 0 and a maintainability index between 0 and 100; it does not
\* raise.
C18_MetricsWithinRange ==
    (pc = "analyze" /\ ret # NoValue) =>
        /\ ret[1].cyclomatic_complexity >= 1
        /\ ret[1].cognitive_complexity >= 0
        /\ ret[1].lines_of_code >= 0
        /\ ret[1].maintainability_index >= 0
        /\ ret[1].maintainability_index <= 10000

\* a Python text that ast.parse rejects with an exception other than
\* SyntaxError: analyze returns the default metrics
C18_Witness ==
    /\ pc = "analyze" /\ ret # NoValue
    /\ arg[1].language = "python" /\ arg[1].code.null_bytes
    /\ arg[1].code.decisions = 400 /\ arg[1].code.nonblank = 300
    /\ ret[1].cyclomatic_complexity = 1
    /\ ret[1].maintainability_index = 5000

PythonTags == {"python", "Python"}

RegexTags == {"javascript", "typescript", "JAVA"}

\* C19 as claimed: for every language other than Python the cyclomatic
\* complexity is 1 plus the number of decision tokens (if, else if, while,
\* for, case, catch, &&, ||, ?) and the cognitive complexity is that plus
\* twice the maximum brace depth.
C19_TokenCountsForEveryOtherLanguage ==
    (pc = "analyze" /\ ret # NoValue /\ arg[1].language \notin PythonTags) =>
        /\ ret[1].cyclomatic_complexity = 1 + arg[1].code.decisions
        /\ ret[1].cognitive_complexity =
              ret[1].cyclomatic_complexity + 2 * arg[1].code.depth

\* C19 amended: for javascript, typescript and java the cyclomatic
\* complexity is 1 plus the number of decision tokens and the cognitive
\* complexity is that plus twice the maximum brace depth; for every other
\* language but Python both are the number of non-blank lines divided by 20
\* and rounded down, and at least 1.
C19_TokenCountsForThreeLanguages ==
    (pc = "analyze" /\ ret # NoValue /\ arg[1].language \notin PythonTags) =>
        IF arg[1].language \in RegexTags
        THEN /\ ret[1].cyclomatic_complexity = 1 + arg[1].code.decisions
             /\ ret[1].cognitive_complexity =
                   ret[1].cyclomatic_complexity + 2 * arg[1].code.depth
        ELSE /\ 20 * ret[1].cyclomatic_complexity <= arg[1].code.nonblank
                \/ ret[1].cyclomatic_complexity = 1
             /\ 20 * (ret[1].cyclomatic_complexity + 1) > arg[1].code.nonblank
             /\ ret[1].cognitive_complexity = ret[1].cyclomatic_complexity

\* a Go text of 300 lines with 3 decision tokens and braces 5 deep: both
\* complexities are 15
C19_Witness ==
    /\ pc = "analyze" /\ ret # NoValue
    /\ arg[1].language = "go"
    /\ arg[1].code.nonblank = 300 /\ arg[1].code.decisions = 3 /\ arg[1].code.depth = 5
    /\ ret[1].cyclomatic_complexity = 15
    /\ ret[1].cognitive_complexity = 15

SmellTypes(smells) == { smells[i].smell_type : i \in 1..Len(smells) }

\* C20: detect_code_smells reports long_method exactly when the source has
\* more than 100 lines, too_many_parameters for a function signature exactly
\* when it has more than 5 comma-separated parameters, and deep_nesting
\* exactly when the brace or indentation nesting depth exceeds 4; a second
\* run gives the same smells.
C20_SmellsAsClaimed ==
    (pc = "detect_code_smells" /\ ret # NoValue) =>
        LET code == arg[1].code
            smells == ret[1]
        IN /\ "long_method" \in SmellTypes(smells) <=> code.lines > 100
           /\ Cardinality({ i \in 1..Len(smells) :
                               smells[i].smell_type = "too_many_parameters" })
              = Cardinality({ k \in 1..Len(code.signatures) : code.signatures[k] > 5 })
           /\ "deep_nesting" \in SmellTypes(smells)
                 <=> (code.depth > 4 \/ code.indent_depth > 4)
           /\ detect_code_smells(code, arg[1].language) = smells

\* a Python text nested 5 deep by indentation, with no brace: no smell
C20_Witness ==
    /\ pc = "detect_code_smells" /\ ret # NoValue
    /\ arg[1].language = "python"
    /\ arg[1].code.indent_depth = 5 /\ arg[1].code.depth = 0
    /\ arg[1].code.lines = 10 /\ arg[1].code.signatures = <<>>
    /\ ret[1] = <<>>

(***************************************************************************)
(* Properties of the language detector.                                    *)
(***************************************************************************)
\* the positions of a path text that lie in its last extension: behind the
\* last "." and before any "/" that follows it
ExtensionPositions(text) ==
    { i \in 1..Len(text) :
        /\ rfind_dot(text) > 0
        /\ i > rfind_dot(text)
        /\ \A k \in rfind_dot(text)..i : text[k] # "/" }

\* a letter of the paths in its other case
SwapCase(c) == CASE c = "p" -> "P" [] c = "P" -> "p" [] OTHER -> c

\* the path texts that differ from a text in the letter case of its
\* extension only
CaseVariants(text) ==
    { [i \in 1..Len(text) |-> IF i \in S THEN SwapCase(text[i]) ELSE text[i]] :
        S \in SUBSET ExtensionPositions(text) }

\* the extensions of the table that the paths of the model can spell, in
\* lower case, with their languages
ClaimedLanguages ==
    { << <<".", "p", "y">>, "python" >>, << <<".", "c">>, "c" >>,
      << <<".", "c", "c">>, "cpp" >>, << <<".", "c", "p", "p">>, "cpp" >> }

\* C21: detect looks the final extension of the path up in a fixed table
\* without regard to the letter case of the extension: paths that differ
\* only in the case of the extension get the same language, and a path
\* whose extension is not in the table gets None, for which is_supported is
\* false; nothing is raised.
C21_DetectIgnoresExtensionCase ==
    LET ext == TextLower(path_suffix(arg[1]))
        known == { item \in ClaimedLanguages : item[1] = ext }
    IN /\ (pc = "detect" /\ ret # NoValue) =>
            /\ \A q \in CaseVariants(arg[1]) : detect(Path(q)) = ret[1]
            /\ known = {} => ret[1] = NoValue
            /\ \A item \in known : ret[1] = Some(item[2])
       /\ (pc = "is_supported" /\ ret # NoValue) => (ret[1] <=> known # {})

\* detect has answered for a path whose extension is written in mixed case
C21_Witness ==
    /\ pc = "detect"
    /\ arg = Some(<<"p", ".", "P", "y">>)
    /\ ret = Some(Some("python"))
    /\ <<"p", ".", "p", "y">> \in CaseVariants(arg[1])

(***************************************************************************)
(* Properties of the review store.                                         *)
(***************************************************************************)
\* the ids whose analysis has stored its review
StoredIds == { id \in DOMAIN analysis_tasks : analysis_tasks[id].state = "returned" }

\* C22: after any sequence of analyze, get, status, summary, list and
\* delete requests the store holds, under every id whose analysis has stored
\* a review and that has not been deleted since, that review as it was
\* stored, in a terminal status; get_review answers with it, and with
\* NotFound exactly for the ids that were never stored or have been deleted.
C22_StoredReviewsStayUntilDeleted ==
    /\ DOMAIN reviews_store = StoredIds \ deleted_ids
    /\ \A id \in DOMAIN reviews_store :
          /\ reviews_store[id] = analysis_tasks[id].review
          /\ reviews_store[id].review_id = id
          /\ reviews_store[id].status \in Terminal
    /\ last_response.op = "get" =>
          /\ last_response.status_code = 404 <=>
                last_response.review_id \notin StoredIds \ deleted_ids
          /\ last_response.status_code # 404 =>
                /\ last_response.status_code = 200
                /\ last_response.body =
                      Some(analysis_tasks[last_response.review_id].review)

\* a review is read after another one was stored, read, listed and deleted
C22_Witness ==
    /\ pc = "store"
    /\ deleted_ids = {2}
    /\ DOMAIN reviews_store = {1}
    /\ last_response.op = "get"
    /\ last_response.review_id = 1
    /\ last_response.status_code = 200
    /\ last_response.body[1].status = "completed"

\* the ids whose analysis is still running
RunningIds == { id \in DOMAIN analysis_tasks : analysis_tasks[id].state = "running" }

\* C23: the analyze endpoint answers with the review id before the analysis
\* has finished, and a status request for a review whose analysis is still
\* running is answered with the review in a non-terminal status, not with
\* NotFound.
C23_StatusReadableWhileRunning ==
    [][ /\ (last_response' # last_response /\ last_response'.op = "analyze") =>
              last_response'.review_id \in RunningIds'
        /\ (/\ last_response' # last_response
            /\ last_response'.op = "status"
            /\ last_response'.review_id \in RunningIds) =>
              /\ last_response'.status_code = 200
              /\ last_response'.body[1].status \in {"pending", "in_progress"} ]_vars

\* a status request for a review whose analysis is running has been answered
C23_Witness ==
    /\ pc = "store"
    /\ last_response.op = "status"
    /\ last_response.review_id \in RunningIds
    /\ last_response.status_code = 404

(***************************************************************************)
(* Properties of the rate limiter.                                         *)
(***************************************************************************)
\* the calls for a key, with a time from a second on for as long as the
\* window, that were answered as allowed
AllowedWithin(key, from) ==
    { i \in 1..Len(limiter_log) :
        /\ limiter_log[i].key = key
        /\ limiter_log[i].is_allowed
        /\ from <= limiter_log[i].time
        /\ limiter_log[i].time < from + limiter_config.window }

\* C24: for every key, check_rate_limit answers at most `limit` of the
\* requests whose times lie within any span of `window` seconds as allowed,
\* however the requests arrive, several within one second included.
C24_AtMostLimitAllowedPerWindow ==
    \A key \in RateLimitKeys : \A from \in 0..MaxTime :
        Cardinality(AllowedWithin(key, from)) <= limiter_config.limit

\* three requests for one key within one second, with a limit of 2, have
\* been answered
C24_Witness ==
    /\ pc = "limiter"
    /\ limiter_config.limit = 2
    /\ Len(limiter_log) = 3
    /\ \A i \in 1..3 :
          /\ limiter_log[i].key = limiter_log[1].key
          /\ limiter_log[i].time = 1
          /\ limiter_log[i].is_allowed

(***************************************************************************)
(* Properties of the cyclomatic complexity of Python source.               *)
(***************************************************************************)
\* the nodes of a tree at the positions of its walk
NodesOfType(tree, types) == { i \in 1..Len(walk(tree)) : walk(tree)[i].type \in types }

\* 1, plus one for each if, while, for and except handler, plus n - 1 for
\* each boolean expression of n operands
ClaimedCyclomatic(tree) ==
    LET nodes == walk(tree)
        bool_ops == NodesOfType(tree, {"BoolOp"})
        operands(i) == Len(nodes[i].fields) - 1
    IN 1 + Cardinality(NodesOfType(tree, {"If", "While", "For", "ExceptHandler"}))
         + SumOver(bool_ops, [i \in bool_ops |-> operands(i) - 1])

\* C25: for Python source that parses, cyclomatic complexity is 1 plus one
\* for each if, while, for and except-handler node plus n - 1 for each
\* boolean expression that joins n operands with one operator; a function
\* without branches and boolean operators has cyclomatic complexity 1.
C25_CyclomaticAsClaimed ==
    (pc = "cyclomatic" /\ ret # NoValue) =>
        /\ ret[1] = ClaimedCyclomatic(arg[1])
        /\ (NodesOfType(arg[1], {"If", "While", "For", "ExceptHandler", "BoolOp"}) = {}) =>
              ret[1] = 1

\* the complexity of "def f(a, b): return a and b" has been computed
C25_Witness ==
    /\ pc = "cyclomatic"
    /\ arg[1].fields[1].fields =
          <<Node("arguments", <<>>),
            Node("Return", <<BoolOpNode("And", <<NameNode, NameNode>>)>>)>>
    /\ ret = Some(3)

\* C26: when the analysis for the language fails on malformed source (a
\* Python text that ast.parse rejects, with SyntaxError or otherwise),
\* analyze returns the default metrics: cyclomatic 1, cognitive 1, lines of
\* code = the number of non-blank lines, maintainability 50.0; it does not
\* raise.
C26_ParseFailureGivesDefaults ==
    (/\ pc = "analyze"
     /\ ret # NoValue
     /\ arg[1].language \in PythonTags
     /\ ~arg[1].code.syntax_ok) =>
        /\ ret[1].cyclomatic_complexity = 1
        /\ ret[1].cognitive_complexity = 1
        /\ ret[1].lines_of_code = arg[1].code.nonblank
        /\ ret[1].maintainability_index = 5000

\* analyze has answered for a Python text with comment lines and decision
\* tokens that does not parse
C26_Witness ==
    /\ pc = "analyze"
    /\ arg[1].language = "python"
    /\ ~arg[1].code.syntax_ok
    /\ ~arg[1].code.null_bytes
    /\ arg[1].code.comments = 2
    /\ arg[1].code.decisions = 3
    /\ ret = Some(ComplexityMetrics(1, 1, 8, 5000))

\* the issues of category quality of a file analysis, in order
QualityIssues(analysis) == SelectSeq(analysis.issues, LAMBDA issue : issue.category = "quality")

\* C27: for every analysed file the AI response contributes
\* min(5, number of returned suggestions) issues, made from the first
\* suggestions in their order, each of category quality and severity medium;
\* a response without suggestions contributes no issue.
C27_AIIssuesAreFirstFiveSuggestions ==
    (pc = "done" /\ FetchOk) =>
        \A i \in 1..Len(pr_files) :
            (Analysable(i) /\ file_log[i].ai.kind = "ok") =>
                /\ Cardinality(EntriesOf(i)) = 1
                /\ \A k \in EntriesOf(i) :
                     LET suggestions == file_log[i].ai.suggestions
                         made == QualityIssues(result.value[1].file_analyses[k])
                     IN /\ Len(made) = Min(5, Len(suggestions))
                        /\ Len(suggestions) = 0 => made = <<>>
                        /\ \A n \in 1..Len(made) :
                              /\ made[n].description = suggestions[n]
                              /\ made[n].severity = "medium"

\* a review of a file whose AI response held seven suggestions and of a
\* file whose AI response held none
C27_Witness ==
    /\ Returned /\ FetchOk
    /\ Len(pr_files) = 2
    /\ Analysable(1) /\ Analysable(2)
    /\ \E i, j \in 1..2 :
          /\ file_log[i].ai.kind = "ok" /\ Len(file_log[i].ai.suggestions) = 7
          /\ file_log[j].ai.kind = "ok" /\ Len(file_log[j].ai.suggestions) = 0
          /\ \A k \in EntriesOf(i) :
                Len(QualityIssues(result.value[1].file_analyses[k])) = 5

\* the security findings of a review, as pairs <<file, position>>
ReviewFindings(response) ==
    UNION { { <<k, n>> : n \in 1..Len(response.file_analyses[k].security_findings) } :
              k \in 1..Len(response.file_analyses) }

\* C28: in every review that analyze_pull_request produces every issue has
\* severity medium or high, so the summary counts no critical and no low
\* issue, and the recommendation is REQUEST_CHANGES exactly when there are
\* more than 3 security findings: a critical security finding alone does
\* not make it REQUEST_CHANGES, and without the security scan it never is.
C28_OnlyFindingCountRequestsChanges ==
    (pc = "done" /\ FetchOk) =>
        LET response == result.value[1]
            summary == response.summary[1]
        IN /\ \A k \in 1..Len(response.file_analyses) :
                \A n \in 1..Len(response.file_analyses[k].issues) :
                    response.file_analyses[k].issues[n].severity \in {"medium", "high"}
           /\ summary.critical_issues = 0
           /\ summary.low_issues = 0
           /\ summary.recommendation = "REQUEST_CHANGES" <=>
                 Cardinality(ReviewFindings(response)) > 3
           /\ ~include_security => summary.recommendation # "REQUEST_CHANGES"

\* a review with an issue of severity high and a critical security finding
\* among at most 3 findings, which is not REQUEST_CHANGES
C28_Witness ==
    /\ Returned /\ FetchOk
    /\ include_security
    /\ LET response == result.value[1]
       IN /\ Cardinality(ReviewFindings(response)) \in 1..3
          /\ \E p \in ReviewFindings(response) :
                response.file_analyses[p[1]].security_findings[p[2]].severity = "critical"
          /\ \E k \in 1..Len(response.file_analyses) :
                \E n \in 1..Len(response.file_analyses[k].issues) :
                    response.file_analyses[k].issues[n].severity = "high"
          /\ response.summary[1].recommendation # "REQUEST_CHANGES"

(***************************************************************************)
(* Properties of the connection manager.                                   *)
(***************************************************************************)
\* C29: a broadcast_review_update or send_personal_message that is
\* suspended at a send completes without error, whatever connect,
\* disconnect, subscribe_to_review or unsubscribe_from_review runs
\* meanwhile, and has then delivered to every connection that was
\* registered throughout (and whose own send did not fail); the sets it
\* iterates over are not changed while it iterates.
C29_SendSurvivesConcurrentChanges ==
    /\ send_task.kind # "none" => send_task.status # "raised"
    /\ (send_task.kind # "none" /\ send_task.status = "done") =>
          send_task.throughout \subseteq send_task.delivered \cup send_task.failed
    /\ Sending =>
          /\ send_task.inner.obj = send_task.inner.initial
          /\ send_task.outer.obj = send_task.outer.initial

\* a personal message has raised RuntimeError after delivering to one
\* connection, because another connection of the user was stored meanwhile
C29_Witness ==
    /\ pc = "manager"
    /\ send_task.kind = "personal"
    /\ send_task.status = "raised"
    /\ send_task.error = "RuntimeError"
    /\ send_task.delivered # {}
    /\ Cardinality(connections_of(active_connections, send_task.user_id)) = 2

(***************************************************************************)
(* Properties of the GitHub webhook endpoint.                              *)
(***************************************************************************)
\* the request carries the signature of its payload under the secret
CorrectlySigned(setting, request) ==
    /\ secret_configured(setting)
    /\ request.x_hub_signature_256 =
          << SignatureText("sha256=", <<hexdigest(setting[1], request.payload)>>) >>

\* C30: with a webhook secret configured, the endpoint hands an event to a
\* handler (and a pull request analysis is started) only if the request
\* carries the HMAC-SHA256 signature of its payload under that secret; a
\* request with a wrong signature or with no signature header is answered
\* with 401 and nothing is dispatched.
C30_OnlySignedRequestsDispatch ==
    (pc \in {"responded", "done"} /\ secret_configured(arg[1])) =>
        IF CorrectlySigned(arg[1], arg[2])
        THEN ret[1].response.status_code # 401
        ELSE /\ ret[1].response.status_code = 401
             /\ ret[1].response.tasks = << >>
             /\ ret[1].ran = << >>

\* with a secret configured, a pull_request event without a signature
\* header has been accepted and its analysis started
C30_Witness ==
    /\ pc = "done"
    /\ secret_configured(arg[1])
    /\ arg[2].x_hub_signature_256 = <<>>
    /\ ret[1].response.status_code = 200
    /\ ret[1].ran = <<"analyze_pull_request">>

====
